---- MODULE Spec2Model ----
(***************************************************************************)
(* zmalloc: the memory-accounting wrapper around the system allocator.     *)
(*                                                                         *)
(* The model follows src/src/zmalloc.c.  Threads call the allocation API;  *)
(* every call is a short sequence of steps, one step per access to state   *)
(* that other threads can see (the underlying allocator, the thread-count  *)
(* atomic, the overflow atomic, a slot of the per-thread table, the        *)
(* handler pointer).  Both builds are modelled: the one where the          *)
(* allocator reports usable sizes (HAVE_MALLOC_SIZE) and the one that      *)
(* stores a size header in front of every block.                           *)
(***************************************************************************)
EXTENDS Integers, Sequences, FiniteSets, TLC

\* ------------------------------------------------------------------ bounds

\* width of size_t in the model, in bits
WordBits == 6
\* number of threads that call the layer
NumThreads == 2
\* capacity of the per-thread table (IO_THREADS_MAX_NUM + 3 + 1 in the source),
\* scaled down
MAX_THREADS_NUM == 2
\* number of blocks the underlying allocator can hand out
MaxBlocks == 2
\* number of API calls in one behaviour of the concurrent workload
MaxCalls == 2
\* number of allocate-and-free pairs in one behaviour of the pairs workload
MaxPairs == 2
ScenarioSize == 2
MaxTail == 4
RssField == 24
\* extra bytes the allocator may add to a request (native usable size)
MaxSlack == 1
\* number of handlers that can be registered besides the default one
NumHandlers == 2

\* ------------------------------------------------------- program constants

\* sizeof(size_t): the header in front of a block when there is no malloc_size
SizeofSizeT == 8
\* sizeof(long): the minimum allocation unit
SizeofLong == 8

SIZE_MAX == 2 ^ WordBits - 1
SizeMod == SIZE_MAX + 1
HalfMax == SIZE_MAX \div 2

NULL == 0
Threads == 1 .. NumThreads
Ptrs == 1 .. MaxBlocks
DefaultOom == 0
Handlers == 0 .. NumHandlers

\* sizes the callers pass
Sizes == {0, 1, HalfMax - 1, HalfMax, SIZE_MAX}
\* (num, size) pairs the callers pass to zcalloc_num
NumSizes == {<<0, 0>>, <<3, 0>>, <<0, 4>>, <<2, 4>>, <<SIZE_MAX, 2>>, <<HalfMax, 4>>,
             <<HalfMax, 2>>}

VARIABLES
    have_malloc_size,                   \* the build: HAVE_MALLOC_SIZE defined or not
    thread_index,                       \* thread-local index, -1 before registration
    total_active_threads,               \* atomic_int
    used_memory_thread,                 \* the per-thread table
    used_memory_for_additional_threads, \* atomic_size_t
    zmalloc_oom_handler,                \* the registered handler
    heap,                               \* the underlying allocator's blocks
    pc,                                 \* where each thread is in its call
    frame,                              \* the locals of each thread's call
    aborted,                            \* abort() was called
    ncalls                              \* calls made so far

vars == <<have_malloc_size, thread_index, total_active_threads, used_memory_thread,
          used_memory_for_additional_threads, zmalloc_oom_handler, heap, pc, frame,
          aborted, ncalls>>

\* ------------------------------------------------------------ pure helpers

Add(a, b) == (a + b) % SizeMod

\* a subtraction that stops at 0
Sub_Saturating(a, b) == IF a < b THEN 0 ELSE a - b

Sub(a, b) == (a + SizeMod - (b % SizeMod)) % SizeMod

PREFIX_SIZE == IF have_malloc_size THEN 0 ELSE SizeofSizeT

\* no minimum allocation size
MALLOC_MIN_SIZE_Raw(x) == x

MALLOC_MIN_SIZE(x) == IF x > 0 THEN x ELSE SizeofLong

MallocOps == {"zmalloc", "ztrymalloc", "zmalloc_usable", "ztrymalloc_usable"}
CallocOps == {"zcalloc", "ztrycalloc", "zcalloc_usable", "ztrycalloc_usable"}
ReallocOps == {"zrealloc", "ztryrealloc", "zrealloc_usable", "ztryrealloc_usable"}
PanicOps == {"zmalloc", "zmalloc_usable", "zcalloc", "zcalloc_usable", "zcalloc_num",
             "zrealloc", "zrealloc_usable"}
TryOps == {"ztrymalloc", "ztrymalloc_usable", "ztrycalloc", "ztrycalloc_usable",
           "ztryrealloc", "ztryrealloc_usable"}

\* a block of the underlying allocator: size is the header (header build) or the
\* usable size the allocator reports (native build); acc is the net amount the
\* accounting updates have attributed to the block so far (history only)
FreeBlock == [live |-> FALSE, size |-> 0, acc |-> 0]

NoFrame == [op |-> "none", ptr |-> NULL, size |-> 0, num |-> 0, elsize |-> 0, todo |-> <<>>,
            tmp |-> 0, after |-> "ret", realptr |-> NULL, ret |-> NULL, usable |-> 0,
            oomarg |-> 0, presize |-> 0, trace |-> <<>>]

Ev(e, x, y) == [ev |-> e, a |-> x, b |-> y]

\* zmalloc_size without the prefix
zmalloc_size_NoPrefix(p) == heap[p].size

\* zmalloc_size: the allocator's answer, or the header plus the prefix
zmalloc_size(p) == IF have_malloc_size THEN heap[p].size ELSE heap[p].size + PREFIX_SIZE

\* zmalloc_usable_size counting the prefix in
zmalloc_usable_size_WithPrefix(p) == zmalloc_size(p)

\* zmalloc_usable_size
zmalloc_usable_size(p) == zmalloc_size(p) - PREFIX_SIZE

\* a block a call in progress holds: the one it will return or the one it will free
Busy(p) == \E u \in Threads : pc[u] # "idle" /\ (frame[u].ret = p \/ frame[u].realptr = p)

\* an allocator handing out memory that is in use
Available_EvenLive(p) == ~Busy(p)

\* a block the underlying malloc, calloc or realloc can return: one that is not
\* allocated
Available(p) == ~heap[p].live /\ ~Busy(p)

\* the callers pass NULL or a live pointer no other call is using
Callable(p) == IF p = NULL THEN TRUE ELSE heap[p].live /\ ~Busy(p)

\* the guard, letting SIZE_MAX / 2 itself through
SizeGuard_OffByOne(size) == size > HalfMax

\* no guard: every size goes to the allocator
SizeGuard_None(size) == FALSE

\* the overflow guard of the internal allocation functions
SizeGuard(size) == size >= HalfMax

\* zfree taking the header for the size of the block
FreeAccounted_NoPrefix(p) == heap[p].size

\* what zfree gives update_zmalloc_stat_free: the allocator's size, or the header
\* value plus the prefix
FreeAccounted(p) ==
    IF have_malloc_size THEN zmalloc_size(p) ELSE Add(heap[p].size, PREFIX_SIZE)

\* zfree_with_size taking the size it is given as the size of the block
FreeWithSizeAccounted_NoPrefix(size) == size

\* what zfree_with_size gives update_zmalloc_stat_free: the size it is given,
\* plus the prefix in the header build
FreeWithSizeAccounted(size) == Add(size, PREFIX_SIZE)

\* the allocation accounting the header value alone
AllocAccounted_NoPrefix(stored) == stored

\* what update_zmalloc_stat_alloc is given for a new block whose recorded size
\* is stored: the allocator's size, or the header value plus the prefix
AllocAccounted(stored) == IF have_malloc_size THEN stored ELSE Add(stored, PREFIX_SIZE)

\* the old size of a reallocation taken with the prefix
ReallocOldSize_WithPrefix(p) == zmalloc_size(p)

\* oldsize in ztryrealloc_usable_internal: the allocator's size of the block, or
\* the value of its header
ReallocOldSize(p) == IF have_malloc_size THEN zmalloc_size(p) ELSE heap[p].size

\* the two updates of a reallocation in the other order
ReallocUpdates_AddFirst(oldsize, newsize) ==
    <<[add |-> TRUE, amt |-> newsize], [add |-> FALSE, amt |-> oldsize]>>

\* a reallocation adding the new size with the prefix, as an allocation does
ReallocUpdates_NewWithPrefix(oldsize, newsize) ==
    <<[add |-> FALSE, amt |-> oldsize], [add |-> TRUE, amt |-> Add(newsize, PREFIX_SIZE)]>>

\* the accounting updates of a reallocation once the underlying realloc has
\* succeeded: update_zmalloc_stat_free(oldsize), update_zmalloc_stat_alloc(size)
ReallocUpdates(oldsize, newsize) ==
    <<[add |-> FALSE, amt |-> oldsize], [add |-> TRUE, amt |-> newsize]>>

\* ztryrealloc_usable_internal without the redirection to zfree for a size of 0
ReallocRoute_NoZeroCase(p, size) ==
    IF p = NULL THEN "malloc"
    ELSE IF SizeGuard(size) THEN "free"
    ELSE "realloc"

\* ztryrealloc_usable_internal redirecting every size of 0 to zfree
ReallocRoute_ZeroAlwaysFrees(p, size) ==
    IF size = 0 THEN "free"
    ELSE IF p = NULL THEN "malloc"
    ELSE IF SizeGuard(size) THEN "free"
    ELSE "realloc"

\* ztryrealloc_usable_internal passing every size on to the allocator
ReallocRoute_NoGuard(p, size) ==
    IF size = 0 /\ p # NULL THEN "free"
    ELSE IF p = NULL THEN "malloc"
    ELSE "realloc"

\* which way ztryrealloc_usable_internal goes
ReallocRoute(p, size) ==
    IF size = 0 /\ p # NULL THEN "free"
    ELSE IF p = NULL THEN "malloc"
    ELSE IF SizeGuard(size) THEN "free"
    ELSE "realloc"

\* the wrappers calling zmalloc_default_oom whatever was registered
OomTarget_Default == DefaultOom

\* the handler a panicking wrapper calls
OomTarget == zmalloc_oom_handler

\* a default handler that only reports
HandlerEnds_Returns(h, r) == ~r

\* whether a call of handler h ends the process: zmalloc_default_oom aborts, a
\* registered handler returns (r) or not
HandlerEnds(h, r) == h = DefaultOom \/ ~r

\* every wrapper calling the handler on NULL
NextPc_AlwaysPanics(op, size, ptr) ==
    IF ptr = NULL /\ (op \in ReallocOps => size # 0) THEN "oom" ELSE "ret"

\* the panicking wrappers calling the handler without looking at the result
NextPc_NoNullCheck(op, size, ptr) ==
    IF op \in PanicOps /\ (op \in ReallocOps => size # 0) THEN "oom" ELSE "ret"

\* the panicking wrappers calling the handler on every NULL, a reallocation to
\* a size of 0 included
NextPc_PanicsOnZero(op, size, ptr) ==
    IF ptr = NULL /\ op \in PanicOps THEN "oom" ELSE "ret"

\* what a wrapper does with the result of the internal call: the panicking ones
\* call the handler on NULL (the reallocating ones only for a non-zero size)
NextPc(op, size, ptr) ==
    IF ptr = NULL /\ op \in PanicOps /\ (op \in ReallocOps => size # 0) THEN "oom" ELSE "ret"

Quiescent == \A t \in Threads : pc[t] = "idle"

RECURSIVE SumSlots(_)
SumSlots(n) == IF n = 0 THEN 0 ELSE Add(SumSlots(n - 1), used_memory_thread[n - 1])

\* zmalloc_used_memory leaving the overflow counter out
UsedMemoryNow_NoOverflow == SumSlots(IF total_active_threads > MAX_THREADS_NUM
                                     THEN MAX_THREADS_NUM ELSE total_active_threads)

\* zmalloc_used_memory leaving the overflow counter out until two threads use it
UsedMemoryNow_OffByOne ==
    LET over == total_active_threads > MAX_THREADS_NUM + 1
        threads_num == IF total_active_threads > MAX_THREADS_NUM
                       THEN MAX_THREADS_NUM ELSE total_active_threads
    IN  Add(IF over THEN used_memory_for_additional_threads ELSE 0, SumSlots(threads_num))

\* zmalloc_used_memory evaluated in one piece
UsedMemoryNow ==
    LET over == total_active_threads > MAX_THREADS_NUM
        threads_num == IF over THEN MAX_THREADS_NUM ELSE total_active_threads
    IN  Add(IF over THEN used_memory_for_additional_threads ELSE 0, SumSlots(threads_num))

\* ---------------------------------------------------------------- actions

\* an allocation accounted before the result of the allocator is looked at
AllocFailUpdates_Counted(req) == <<[add |-> TRUE, amt |-> req]>>

\* the accounting updates of an allocation the allocator refused: none, the
\* function returns NULL first
AllocFailUpdates(req) == <<>>

\* where a call goes once the allocator has refused
AfterRefusal(op, size, todo) == IF todo # <<>> THEN "stat" ELSE NextPc(op, size, NULL)

\* ztrymalloc_usable_internal / ztrycalloc_usable_internal up to the accounting
\* update, as called by the wrappers of MallocOps and CallocOps (and by
\* ztryrealloc_usable_internal for a NULL pointer): the guard, the underlying
\* malloc or calloc, the header.
AllocInternalOf(t, op, size, num, elsize) ==
    LET shim == IF op \in CallocOps \/ op = "zcalloc_num" THEN "calloc" ELSE "malloc"
        req == Add(MALLOC_MIN_SIZE(size), PREFIX_SIZE)
        base == [NoFrame EXCEPT !.op = op, !.size = size, !.num = num, !.elsize = elsize,
                                !.oomarg = size]
    IN  IF SizeGuard(size)
        THEN /\ frame' = [frame EXCEPT ![t] = base]
             /\ pc' = [pc EXCEPT ![t] = NextPc(op, size, NULL)]
             /\ heap' = heap
        ELSE \/ /\ frame' = [frame EXCEPT ![t] =
                        [base EXCEPT !.todo = AllocFailUpdates(req),
                                     !.trace = <<Ev(shim, req, NULL)>>]]
                /\ pc' = [pc EXCEPT ![t] = AfterRefusal(op, size, AllocFailUpdates(req))]
                /\ heap' = heap
             \/ \E p \in Ptrs, slack \in {0, MaxSlack} :
                    /\ Available(p)
                    /\ \A r \in Ptrs : r < p => ~Available(r)
                    /\ have_malloc_size \/ slack = 0
                    /\ LET stored == IF have_malloc_size THEN req + slack
                                     ELSE MALLOC_MIN_SIZE(size)
                           acc == AllocAccounted(stored)
                       IN  /\ heap' = [heap EXCEPT ![p] =
                                  [live |-> TRUE, size |-> stored, acc |-> 0]]
                           /\ frame' = [frame EXCEPT ![t] =
                                  [base EXCEPT !.ret = p, !.usable = stored,
                                               !.todo = <<[add |-> TRUE, amt |-> acc]>>,
                                               !.after = "ret",
                                               !.trace = <<Ev(shim, req, p)>>]]
                           /\ pc' = [pc EXCEPT ![t] = "stat"]

\* the same for the callers that have no element size
AllocInternal(t, op, size, num) == AllocInternalOf(t, op, size, num, 0)

\* zmalloc, ztrymalloc, zmalloc_usable, ztrymalloc_usable, zcalloc, ztrycalloc,
\* zcalloc_usable, ztrycalloc_usable
AllocCall(t, ops, sizes) ==
    /\ ~aborted /\ pc[t] = "idle"
    /\ \E op \in ops, size \in sizes : AllocInternal(t, op, size, 0)
    /\ UNCHANGED <<have_malloc_size, thread_index, total_active_threads,
                   used_memory_thread, used_memory_for_additional_threads,
                   zmalloc_oom_handler, aborted>>

\* a test of zcalloc_num that lets an element size of 0 through
CallocNumOverflows_ZeroPasses(num, size) == size # 0 /\ num > SIZE_MAX \div size

\* the test of zcalloc_num done on the product
CallocNumOverflows_AfterMultiply(num, size) == size = 0 \/ (num * size) % SizeMod > SIZE_MAX

\* the test of zcalloc_num before it multiplies
CallocNumOverflows(num, size) == size = 0 \/ num > SIZE_MAX \div size

\* num * size in size_t
CallocNumSize(num, size) == (num * size) % SizeMod

\* zcalloc_num
CallocNumCall(t) ==
    /\ ~aborted /\ pc[t] = "idle"
    /\ \E ns \in NumSizes :
           LET num == ns[1]
               size == ns[2]
           IN  IF CallocNumOverflows(num, size)
               THEN /\ frame' = [frame EXCEPT ![t] =
                            [NoFrame EXCEPT !.op = "zcalloc_num", !.size = size,
                                            !.num = num, !.elsize = size,
                                            !.oomarg = SIZE_MAX]]
                    /\ pc' = [pc EXCEPT ![t] = "oom"]
                    /\ heap' = heap
               ELSE AllocInternalOf(t, "zcalloc_num", CallocNumSize(num, size), num, size)
    /\ UNCHANGED <<have_malloc_size, thread_index, total_active_threads,
                   used_memory_thread, used_memory_for_additional_threads,
                   zmalloc_oom_handler, aborted>>

\* a registration that reads total_active_threads and does not increment it
Register_LoadOnly(t) ==
    /\ ~aborted /\ pc[t] = "stat" /\ thread_index[t] = -1
    /\ thread_index' = [thread_index EXCEPT ![t] = total_active_threads]
    /\ frame' = [frame EXCEPT ![t].trace = Append(@, Ev("register", total_active_threads, 0))]
    /\ UNCHANGED <<have_malloc_size, total_active_threads, used_memory_thread,
                   used_memory_for_additional_threads, zmalloc_oom_handler, heap, pc,
                   aborted, ncalls>>

\* zmalloc_register_thread_index, reached from update_zmalloc_stat_alloc/free
Register(t) ==
    /\ ~aborted /\ pc[t] = "stat" /\ thread_index[t] = -1
    /\ thread_index' = [thread_index EXCEPT ![t] = total_active_threads]
    /\ total_active_threads' = total_active_threads + 1
    /\ frame' = [frame EXCEPT ![t].trace = Append(@, Ev("register", total_active_threads, 0))]
    /\ UNCHANGED <<have_malloc_size, used_memory_thread, used_memory_for_additional_threads,
                   zmalloc_oom_handler, heap, pc, aborted, ncalls>>

\* an index that is not local to the thread: every thread uses the first slot
SlotOf_First(t) == 0

\* the slot of the table a thread updates: the one of its thread-local index
SlotOf(t) == thread_index[t]

\* every update going to the overflow counter
UsesOverflow_Always(t) == TRUE

\* the counter an update of thread t goes to: a slot, or the overflow counter
UsesOverflow(t) == thread_index[t] >= MAX_THREADS_NUM

\* where a call goes after an accounting update: the next update, the underlying
\* free, or back to the wrapper
AfterStat(t, rest) ==
    IF rest # <<>> THEN "stat"
    ELSE IF frame[t].after = "free" THEN "free"
    ELSE NextPc(frame[t].op, frame[t].size, frame[t].ret)

\* the block an accounting update of thread t is about
StatBlock(t) == IF frame[t].realptr # NULL THEN frame[t].realptr ELSE frame[t].ret

\* the history of what the updates attributed to the block
Attribute(t, u) ==
    [heap EXCEPT ![StatBlock(t)].acc = IF u.add THEN Add(@, u.amt) ELSE Sub(@, u.amt)]

\* update_zmalloc_stat_alloc / update_zmalloc_stat_free of a thread beyond the
\* table: one atomic fetch-and-add or fetch-and-sub
StatAtomic(t) ==
    /\ ~aborted /\ pc[t] = "stat" /\ thread_index[t] # -1 /\ UsesOverflow(t)
    /\ LET u == Head(frame[t].todo)
           rest == Tail(frame[t].todo)
       IN  /\ used_memory_for_additional_threads' =
                  IF u.add THEN Add(used_memory_for_additional_threads, u.amt)
                  ELSE Sub(used_memory_for_additional_threads, u.amt)
           /\ frame' = [frame EXCEPT ![t].todo = rest,
                            ![t].trace = Append(@, Ev(IF u.add THEN "stat_add" ELSE "stat_sub",
                                                      -1, u.amt))]
           /\ pc' = [pc EXCEPT ![t] = AfterStat(t, rest)]
           /\ heap' = Attribute(t, u)
    /\ UNCHANGED <<have_malloc_size, thread_index, total_active_threads, used_memory_thread,
                   zmalloc_oom_handler, aborted, ncalls>>

\* used_memory_thread[thread_index] += size, -= size: the load
StatLoad(t) ==
    /\ ~aborted /\ pc[t] = "stat" /\ thread_index[t] # -1 /\ ~UsesOverflow(t)
    /\ frame' = [frame EXCEPT ![t].tmp = used_memory_thread[SlotOf(t)]]
    /\ pc' = [pc EXCEPT ![t] = "stat_wr"]
    /\ UNCHANGED <<have_malloc_size, thread_index, total_active_threads, used_memory_thread,
                   used_memory_for_additional_threads, zmalloc_oom_handler, heap, aborted,
                   ncalls>>

\* used_memory_thread[thread_index] += size, -= size: the store
StatStore(t) ==
    /\ ~aborted /\ pc[t] = "stat_wr"
    /\ LET u == Head(frame[t].todo)
           rest == Tail(frame[t].todo)
           i == SlotOf(t)
       IN  /\ used_memory_thread' = [used_memory_thread EXCEPT ![i] =
                  IF u.add THEN Add(frame[t].tmp, u.amt) ELSE Sub(frame[t].tmp, u.amt)]
           /\ frame' = [frame EXCEPT ![t].todo = rest, ![t].tmp = 0,
                            ![t].trace = Append(@, Ev(IF u.add THEN "stat_add" ELSE "stat_sub",
                                                      i, u.amt))]
           /\ pc' = [pc EXCEPT ![t] = AfterStat(t, rest)]
           /\ heap' = Attribute(t, u)
    /\ UNCHANGED <<have_malloc_size, thread_index, total_active_threads,
                   used_memory_for_additional_threads, zmalloc_oom_handler, aborted,
                   ncalls>>

\* a zfree that hands the block back to the allocator before it accounts for it
HeapAfterSizeRead_Freed(p) == [heap EXCEPT ![p] = FreeBlock]

\* the heap once zfree has the size of block p: as it was, the underlying free
\* comes last, in zfree_internal
HeapAfterSizeRead(p) == heap

\* a free of NULL that goes through the accounting with a size of 0
NullFreeUpdates_Zero == <<[add |-> FALSE, amt |-> 0]>>

\* the accounting updates of zfree(NULL) and zfree_with_size(NULL, n): none, the
\* functions return at once
NullFreeUpdates == <<>>

\* zfree / zfree_with_size up to the accounting update: the NULL check and the
\* size of the block (read from the allocator or the header, or given)
FreeInternal(t, op, p, size) ==
    LET base == [NoFrame EXCEPT !.op = op, !.ptr = p, !.size = size, !.oomarg = size]
    IN  /\ heap' = IF p = NULL THEN heap ELSE HeapAfterSizeRead(p)
        /\ IF p = NULL
           THEN /\ frame' = [frame EXCEPT ![t] = [base EXCEPT !.todo = NullFreeUpdates]]
                /\ pc' = [pc EXCEPT ![t] = IF NullFreeUpdates = <<>> THEN "ret" ELSE "stat"]
           ELSE LET sz == IF op = "zfree_with_size" THEN FreeWithSizeAccounted(size)
                          ELSE FreeAccounted(p)
                    rd == IF op = "zfree_with_size" THEN <<>>
                          ELSE <<Ev("read_size", p, heap[p].size)>>
                IN  /\ frame' = [frame EXCEPT ![t] =
                            [base EXCEPT !.realptr = p, !.presize = zmalloc_size(p),
                                         !.todo = <<[add |-> FALSE, amt |-> sz]>>,
                                         !.after = "free", !.trace = rd]]
                    /\ pc' = [pc EXCEPT ![t] = "stat"]

\* zfree(ptr)
FreeCall(t, ptrs) ==
    /\ ~aborted /\ pc[t] = "idle"
    /\ \E p \in ptrs :
           /\ Callable(p)
           /\ FreeInternal(t, "zfree", p, 0)
    /\ UNCHANGED <<have_malloc_size, thread_index, total_active_threads,
                   used_memory_thread, used_memory_for_additional_threads,
                   zmalloc_oom_handler, aborted>>

\* zfree_with_size(ptr, size): the caller provides the usable size of the block
\* (any size with a NULL pointer)
FreeWithSizeCall(t, ptrs) ==
    /\ ~aborted /\ pc[t] = "idle"
    /\ \E p \in ptrs :
           /\ Callable(p)
           /\ \E n \in IF p = NULL THEN Sizes ELSE {zmalloc_usable_size(p)} :
                  FreeInternal(t, "zfree_with_size", p, n)
    /\ UNCHANGED <<have_malloc_size, thread_index, total_active_threads,
                   used_memory_thread, used_memory_for_additional_threads,
                   zmalloc_oom_handler, aborted>>

\* an underlying realloc that releases the block when it fails
ReallocFailHeap_Releases(p) == [heap EXCEPT ![p] = FreeBlock]

\* the heap after the underlying realloc returned NULL: nothing is stored in it
\* and nothing is freed before the return
ReallocFailHeap(p) == heap

\* ztryrealloc_usable_internal up to the accounting updates, as called by the
\* wrappers of ReallocOps
ReallocInternal(t, op, p, size) ==
    IF ReallocRoute(p, size) = "free" THEN FreeInternal(t, op, p, size)
    ELSE IF ReallocRoute(p, size) = "malloc" THEN AllocInternal(t, op, size, 0)
    ELSE
        LET oldsize == ReallocOldSize(p)
            req == Add(size, PREFIX_SIZE)
            base == [NoFrame EXCEPT !.op = op, !.ptr = p, !.size = size, !.oomarg = size,
                                    !.presize = zmalloc_size(p)]
            rd == Ev("read_size", p, oldsize)
        IN  \/ /\ frame' = [frame EXCEPT ![t] =
                       [base EXCEPT !.trace = <<rd, Ev("realloc", req, NULL)>>]]
               /\ pc' = [pc EXCEPT ![t] = NextPc(op, size, NULL)]
               /\ heap' = ReallocFailHeap(p)
            \/ \E q \in Ptrs, slack \in {0, MaxSlack} :
                   /\ q = p \/ (Available(q) /\ \A r \in Ptrs : r < q => ~Available(r))
                   /\ have_malloc_size \/ slack = 0
                   /\ LET stored == IF have_malloc_size THEN req + slack ELSE size
                          moved == [heap EXCEPT ![p] = FreeBlock]
                      IN  /\ heap' = [moved EXCEPT ![q] =
                                 [live |-> TRUE, size |-> stored, acc |-> heap[p].acc]]
                          /\ frame' = [frame EXCEPT ![t] =
                                 [base EXCEPT !.ret = q, !.usable = stored,
                                              !.todo = ReallocUpdates(oldsize, stored),
                                              !.after = "ret",
                                              !.trace = <<rd, Ev("realloc", req, q)>>]]
                          /\ pc' = [pc EXCEPT ![t] = "stat"]

\* zrealloc, ztryrealloc, zrealloc_usable, ztryrealloc_usable
ReallocCall(t, ops, ptrs, sizes) ==
    /\ ~aborted /\ pc[t] = "idle"
    /\ \E op \in ops, p \in ptrs, size \in sizes :
           /\ Callable(p)
           /\ ReallocInternal(t, op, p, size)
    /\ UNCHANGED <<have_malloc_size, thread_index, total_active_threads,
                   used_memory_thread, used_memory_for_additional_threads,
                   zmalloc_oom_handler, aborted>>

\* zfree_internal after the accounting update: the underlying free
ShimFree(t) ==
    /\ ~aborted /\ pc[t] = "free"
    /\ heap' = [heap EXCEPT ![frame[t].realptr] = FreeBlock]
    /\ frame' = [frame EXCEPT ![t].realptr = NULL,
                     ![t].trace = Append(@, Ev("free", frame[t].realptr, 0))]
    /\ pc' = [pc EXCEPT ![t] = NextPc(frame[t].op, frame[t].size, NULL)]
    /\ UNCHANGED <<have_malloc_size, thread_index, total_active_threads, used_memory_thread,
                   used_memory_for_additional_threads, zmalloc_oom_handler, aborted, ncalls>>

\* zmalloc_oom_handler(size) in a panicking wrapper: the default handler aborts,
\* a registered one returns or ends the process
OomHandler(t) ==
    /\ ~aborted /\ pc[t] = "oom"
    /\ \E r \in BOOLEAN :
           LET h == OomTarget
           IN  /\ frame' = [frame EXCEPT ![t].trace = Append(@, Ev("oom", h, frame[t].oomarg))]
               /\ aborted' = HandlerEnds(h, r)
               /\ pc' = IF HandlerEnds(h, r) THEN pc ELSE [pc EXCEPT ![t] = "ret"]
    /\ UNCHANGED <<have_malloc_size, thread_index, total_active_threads, used_memory_thread,
                   used_memory_for_additional_threads, zmalloc_oom_handler, heap, ncalls>>

\* zmalloc_set_oom_handler
SetOomHandler(t) ==
    /\ ~aborted /\ pc[t] = "idle"
    /\ \E h \in Handlers \ {DefaultOom} : zmalloc_oom_handler' = h
    /\ UNCHANGED <<have_malloc_size, thread_index, total_active_threads, used_memory_thread,
                   used_memory_for_additional_threads, heap, pc, frame, aborted>>

\* the test of zmalloc_used_memory letting one thread too many through
UsedMemoryOver_OffByOne(total) == total > MAX_THREADS_NUM + 1

\* the test of zmalloc_used_memory on total_active_threads
UsedMemoryOver(total) == total > MAX_THREADS_NUM

\* what a read of used_memory_thread[i] gives: the slot, or anything when i is
\* beyond the table
SlotRead(i) ==
    IF i \in DOMAIN used_memory_thread THEN {used_memory_thread[i]} ELSE {0, SIZE_MAX}

\* a fallback that reports nothing
RssFallback_Zero(um) == 0

\* zmalloc_get_rss where there is no OS-specific way: what zmalloc_used_memory
\* returned
RssFallback(um) == um

\* what the call returns when its sum is um
UsedMemoryResult(op, um) == IF op = "zmalloc_get_rss" THEN RssFallback(um) ELSE um

\* the loop of zmalloc_used_memory: i < threads_num
AfterRead(i, threads_num) == IF i < threads_num THEN "um_loop" ELSE "ret"

\* zmalloc_used_memory, called directly or by zmalloc_get_rss: um = 0 and the
\* first read of total_active_threads, into threads_num
UsedMemoryCall(t, ops) ==
    /\ ~aborted /\ pc[t] = "idle"
    /\ \E op \in ops :
           frame' = [frame EXCEPT ![t] =
               [NoFrame EXCEPT !.op = op, !.num = total_active_threads,
                               !.usable = UsedMemoryResult(op, 0),
                               !.trace = <<Ev("read_total", total_active_threads, 0)>>]]
    /\ pc' = [pc EXCEPT ![t] = "um_cmp"]
    /\ UNCHANGED <<have_malloc_size, thread_index, total_active_threads,
                   used_memory_thread, used_memory_for_additional_threads,
                   zmalloc_oom_handler, heap, aborted>>

\* zmalloc_used_memory: the second read of total_active_threads, for the test
UsedMemoryCompare(t) ==
    /\ ~aborted /\ pc[t] = "um_cmp"
    /\ frame' = [frame EXCEPT ![t].trace = Append(@, Ev("read_total", total_active_threads, 1))]
    /\ pc' = [pc EXCEPT ![t] = IF UsedMemoryOver(total_active_threads) THEN "um_over"
                                ELSE AfterRead(0, frame[t].num)]
    /\ UNCHANGED <<have_malloc_size, thread_index, total_active_threads,
                   used_memory_thread, used_memory_for_additional_threads,
                   zmalloc_oom_handler, heap, aborted, ncalls>>

\* zmalloc_used_memory: um += the overflow counter; threads_num = MAX_THREADS_NUM
UsedMemoryOverflow(t) ==
    /\ ~aborted /\ pc[t] = "um_over"
    /\ LET um == Add(frame[t].tmp, used_memory_for_additional_threads)
       IN  frame' = [frame EXCEPT ![t].tmp = um, ![t].num = MAX_THREADS_NUM,
                         ![t].usable = UsedMemoryResult(frame[t].op, um),
                         ![t].trace = Append(@, Ev("read_over",
                                                   used_memory_for_additional_threads, 0))]
    /\ pc' = [pc EXCEPT ![t] = AfterRead(0, MAX_THREADS_NUM)]
    /\ UNCHANGED <<have_malloc_size, thread_index, total_active_threads,
                   used_memory_thread, used_memory_for_additional_threads,
                   zmalloc_oom_handler, heap, aborted, ncalls>>

\* zmalloc_used_memory: um += used_memory_thread[i]; i++
UsedMemoryLoop(t) ==
    /\ ~aborted /\ pc[t] = "um_loop"
    /\ \E v \in SlotRead(frame[t].size) :
           LET i == frame[t].size
               um == Add(frame[t].tmp, v)
           IN  /\ frame' = [frame EXCEPT ![t].tmp = um, ![t].size = i + 1,
                                 ![t].usable = UsedMemoryResult(frame[t].op, um),
                                 ![t].trace = Append(@, Ev("read_slot", i, v))]
               /\ pc' = [pc EXCEPT ![t] = AfterRead(i + 1, frame[t].num)]
    /\ UNCHANGED <<have_malloc_size, thread_index, total_active_threads,
                   used_memory_thread, used_memory_for_additional_threads,
                   zmalloc_oom_handler, heap, aborted, ncalls>>

\* x & y on size_t
RECURSIVE BitAnd(_, _, _)
BitAnd(x, y, bits) ==
    IF bits = 0 THEN 0
    ELSE (x % 2) * (y % 2) + 2 * BitAnd(x \div 2, y \div 2, bits - 1)

\* ~x on size_t
BitNot(x) == SIZE_MAX - x

\* the pointer aligned downwards
AlignUp_Down(ptr, page_size) == BitAnd(ptr, BitNot(page_size - 1), WordBits)

\* aligned_ptr: ((size_t)ptr + page_size_mask) & ~page_size_mask
AlignUp(ptr, page_size) ==
    BitAnd(Add(ptr, page_size - 1), BitNot(page_size - 1), WordBits)

\* the madvise calls of zmadvise_dontneed(ptr, size_hint) on a block whose
\* zmalloc_size is real_size, with pages of page_size bytes, on a build that is
\* jemalloc on Linux or not
Advised(ptr, size_hint, real_size, page_size, jemalloc_linux) ==
    IF ~jemalloc_linux \/ ptr = NULL THEN <<>>
    ELSE IF size_hint # 0 /\ size_hint \div 2 < page_size THEN <<>>
    ELSE IF real_size < page_size THEN <<>>
    ELSE LET aligned_ptr == AlignUp(ptr, page_size)
             rest == Sub(real_size, Sub(aligned_ptr, ptr))
         IN  IF rest >= page_size
             THEN <<Ev("madvise", aligned_ptr, BitAnd(rest, BitNot(page_size - 1), WordBits))>>
             ELSE <<>>

\* the page sizes sysconf(_SC_PAGESIZE) gives: powers of two
PageSizes == {4, 8}

\* the sizes of the blocks given to zmadvise_dontneed: around one, two and three
\* pages
AdviseSizes(page_size) ==
    {1, page_size - 1, page_size, page_size + 1, 2 * page_size - 1, 2 * page_size,
     2 * page_size + 1, 3 * page_size}

\* zmadvise_dontneed(ptr, size_hint), ptr being NULL or the address of a block
\* of real_size bytes that lies in the address space; the build is jemalloc on
\* Linux (which has malloc_size) or another one
AdviseCall(t) ==
    /\ ~aborted /\ pc[t] = "idle"
    /\ \E page_size \in PageSizes, ptr \in 0 .. SIZE_MAX :
       \E real_size \in {r \in AdviseSizes(page_size) : ptr + r <= SizeMod} :
       \E size_hint \in {0, 1, 2 * page_size - 1, 2 * page_size, SIZE_MAX} :
       \E jemalloc_linux \in IF have_malloc_size THEN BOOLEAN ELSE {FALSE} :
           frame' = [frame EXCEPT ![t] =
               [NoFrame EXCEPT !.op = "zmadvise_dontneed", !.ptr = ptr, !.size = size_hint,
                               !.presize = real_size, !.num = page_size,
                               !.trace = <<Ev("build", jemalloc_linux, 0)>> \o
                                   Advised(ptr, size_hint, real_size, page_size,
                                           jemalloc_linux)]]
    /\ pc' = [pc EXCEPT ![t] = "ret"]
    /\ UNCHANGED <<have_malloc_size, thread_index, total_active_threads,
                   used_memory_thread, used_memory_for_additional_threads,
                   zmalloc_oom_handler, heap, aborted, ncalls>>

\* the calls about the allocator's own statistics and purging
InfoOps == {"zmalloc_get_allocator_info", "set_jemalloc_bg_thread", "jemalloc_purge"}

\* zmalloc_get_allocator_info leaving the optional outputs as they were
AllocatorInfoOut_SkipsOptional(retained, muzzy) ==
    <<Ev("set_allocated", 0, 0), Ev("set_resident", 0, 0), Ev("set_active", 0, 0)>>

\* zmalloc_get_allocator_info where the allocator is not jemalloc: what it
\* stores through its pointers, retained and muzzy telling which of the two
\* optional ones are not NULL
AllocatorInfoOut(retained, muzzy) ==
    <<Ev("set_allocated", 0, 0), Ev("set_resident", 0, 0), Ev("set_active", 0, 0)>>
    \o (IF retained THEN <<Ev("set_retained", 0, 0)>> ELSE <<>>)
    \o (IF muzzy THEN <<Ev("set_muzzy", 0, 0)>> ELSE <<>>)

\* what the calls of InfoOps return where the allocator is not jemalloc (nothing,
\* written 0, for set_jemalloc_bg_thread)
InfoReturns(op) == IF op = "zmalloc_get_allocator_info" THEN 1 ELSE 0

\* zmalloc_get_allocator_info(allocated, active, resident, retained, muzzy),
\* set_jemalloc_bg_thread(enable) and jemalloc_purge() where the allocator is
\* not jemalloc; num and size record whether retained and muzzy are not NULL, or
\* enable
InfoCall(t) ==
    /\ ~aborted /\ pc[t] = "idle"
    /\ \E op \in InfoOps, x \in BOOLEAN, y \in BOOLEAN :
           /\ op = "jemalloc_purge" => ~x
           /\ op # "zmalloc_get_allocator_info" => ~y
           /\ frame' = [frame EXCEPT ![t] =
                  [NoFrame EXCEPT !.op = op, !.num = IF x THEN 1 ELSE 0,
                                  !.size = IF y THEN 1 ELSE 0,
                                  !.usable = InfoReturns(op),
                                  !.trace = IF op = "zmalloc_get_allocator_info"
                                            THEN AllocatorInfoOut(x, y) ELSE <<>>]]
    /\ pc' = [pc EXCEPT ![t] = "ret"]
    /\ UNCHANGED <<have_malloc_size, thread_index, total_active_threads,
                   used_memory_thread, used_memory_for_additional_threads,
                   zmalloc_oom_handler, heap, aborted>>

\* what a je_mallctl that reads a statistic gives: failure, which leaves the
\* output as it was, or success with a value
MallctlReads == {<<FALSE, 0>>, <<TRUE, 1>>, <<TRUE, SIZE_MAX>>}

\* je_mallctl(name, out, ...) on an output holding 0: what out holds afterwards,
\* and whether the call succeeded
Mallctl(name, r) == Ev(name, IF r[1] THEN r[2] ELSE 0, IF r[1] THEN 1 ELSE 0)

\* the statistics read before the epoch is refreshed
EpochThenStats_StatsFirst(epoch, stats) == stats \o epoch

\* zmalloc_get_allocator_info with jemalloc: je_mallctl("epoch") and then the
\* reads of the statistics
EpochThenStats(epoch, stats) == epoch \o stats

\* zmalloc_get_allocator_info with jemalloc, up to the muzzy part: the three
\* outputs zeroed, the epoch, the three statistics, and retained when asked for
JeInfoStats(epoch_ok, resident, active, allocated, retained, r) ==
    <<Ev("set_active", 0, 0), Ev("set_resident", 0, 0), Ev("set_allocated", 0, 0)>>
    \o EpochThenStats(<<Ev("epoch", 0, IF epoch_ok THEN 1 ELSE 0)>>,
                      <<Mallctl("stats.resident", resident), Mallctl("stats.active", active),
                        Mallctl("stats.allocated", allocated)>>
                      \o (IF retained
                          THEN <<Ev("set_retained", 0, 0), Mallctl("stats.retained", r)>>
                          ELSE <<>>))

\* zmalloc_get_allocator_info with jemalloc, the muzzy part: the two queries are
\* inside assert(), so that a failure aborts, and a build with NDEBUG makes
\* neither and multiplies two uninitialized values
JeInfoMuzzy(muzzy, ndebug, pmuzzy, page, garbage) ==
    IF ~muzzy THEN <<>>
    ELSE IF ndebug THEN <<Ev("set_muzzy", garbage, 0)>>
    ELSE IF ~pmuzzy[1] THEN <<Mallctl("stats.arenas.pmuzzy", pmuzzy), Ev("abort", 0, 0)>>
    ELSE IF ~page[1]
    THEN <<Mallctl("stats.arenas.pmuzzy", pmuzzy), Mallctl("arenas.page", page),
           Ev("abort", 0, 0)>>
    ELSE <<Mallctl("stats.arenas.pmuzzy", pmuzzy), Mallctl("arenas.page", page),
           Ev("set_muzzy", (pmuzzy[2] * page[2]) % SizeMod, 0)>>

\* zmalloc_get_allocator_info(allocated, active, resident, retained, muzzy) where
\* the allocator is jemalloc (which has malloc_size); num and size record
\* whether retained and muzzy are not NULL
JeInfoCall(t) ==
    /\ ~aborted /\ pc[t] = "idle" /\ have_malloc_size
    /\ \E retained \in BOOLEAN, muzzy \in BOOLEAN, ndebug \in BOOLEAN, epoch_ok \in BOOLEAN,
          resident \in MallctlReads, active \in MallctlReads, allocated \in MallctlReads,
          r \in MallctlReads, pmuzzy \in MallctlReads, page \in MallctlReads,
          garbage \in {0, SIZE_MAX} :
           LET done == JeInfoStats(epoch_ok, resident, active, allocated, retained, r)
                           \o JeInfoMuzzy(muzzy, ndebug, pmuzzy, page, garbage)
               failed == done[Len(done)].ev = "abort"
           IN  /\ frame' = [frame EXCEPT ![t] =
                      [NoFrame EXCEPT !.op = "zmalloc_get_allocator_info (jemalloc)",
                                      !.num = IF retained THEN 1 ELSE 0,
                                      !.size = IF muzzy THEN 1 ELSE 0,
                                      !.usable = IF failed THEN 0 ELSE 1,
                                      !.trace = done]]
               /\ aborted' = failed
               /\ pc' = [pc EXCEPT ![t] = IF failed THEN "abort" ELSE "ret"]
    /\ UNCHANGED <<have_malloc_size, thread_index, total_active_threads,
                   used_memory_thread, used_memory_for_additional_threads,
                   zmalloc_oom_handler, heap, ncalls>>

\* LLONG_MAX: long long has the width of size_t
LLONG_MAX == SIZE_MAX \div 2

\* the characters of the lines read from /proc/self/stat: two digits, the space,
\* a letter, and in the process name the parentheses
Digits == {"1", "9"}

DigitValue(c) == IF c = "9" THEN 9 ELSE 1

\* strchr(p, c): the first place at or after p where c is, 0 for NULL
RECURSIVE strchr(_, _, _)
strchr(buf, p, c) ==
    IF p > Len(buf) THEN 0
    ELSE IF buf[p] = c THEN p
    ELSE strchr(buf, p + 1, c)

\* strrchr(buf, c): the last place where c is, 0 for NULL
RECURSIVE strrchr(_, _, _)
strrchr(buf, p, c) ==
    IF p = 0 THEN 0
    ELSE IF buf[p] = c THEN p
    ELSE strrchr(buf, p - 1, c)

\* while (*p == ' ') p++; the place after buf being that of the final 0
RECURSIVE SkipSpaces(_, _)
SkipSpaces(buf, p) ==
    IF p <= Len(buf) /\ buf[p] = " " THEN SkipSpaces(buf, p + 1) ELSE p

\* the loop of get_proc_stat_ll: i times to the character after the next
\* space; 0 when there is no space left
RECURSIVE SkipFields(_, _, _)
SkipFields(buf, p, i) ==
    IF i = 0 THEN p
    ELSE IF strchr(buf, p, " ") = 0 THEN 0
    ELSE SkipFields(buf, strchr(buf, p, " ") + 1, i - 1)

\* the number of digits str begins with
RECURSIVE DigitsAhead(_)
DigitsAhead(str) ==
    IF str # <<>> /\ Head(str) \in Digits THEN 1 + DigitsAhead(Tail(str)) ELSE 0

\* the value of a sequence of digits
RECURSIVE DecimalValue(_)
DecimalValue(str) ==
    IF str = <<>> THEN 0
    ELSE 10 * DecimalValue(SubSeq(str, 1, Len(str) - 1)) + DigitValue(str[Len(str)])

\* strtoll(str, &x, 10) on these characters (no sign, no white space before the
\* digits): the value of the digits str begins with, LLONG_MAX when it does not
\* fit, 0 when there is none; endptr is the place of the first character that
\* was not converted
strtoll(str) ==
    LET n == DigitsAhead(str)
        v == DecimalValue(SubSeq(str, 1, n))
    IN  [value |-> IF v > LLONG_MAX THEN LLONG_MAX ELSE v, endptr |-> n + 1]

\* get_proc_stat_ll(i, res), read() having given the characters of line (none
\* when the file cannot be opened or read): what it returns, whether it stored
\* something in *res, and what
get_proc_stat_ll(i, line) ==
    LET no == [ret |-> 0, stored |-> FALSE, res |-> 0]
        buf == IF line # <<>> /\ line[Len(line)] = "\n"
               THEN SubSeq(line, 1, Len(line) - 1) ELSE line
        paren == strrchr(buf, Len(buf), ")")
        first == SkipSpaces(buf, paren + 1)
        p == SkipFields(buf, first, i - 3)
        x == strchr(buf, p, " ")
        field == SubSeq(buf, p, IF x = 0 THEN Len(buf) ELSE x - 1)
        conv == strtoll(field)
    IN  IF line = <<>> THEN no
        ELSE IF paren = 0 THEN no
        ELSE IF first > Len(buf) THEN no
        ELSE IF i - 3 < 0 THEN no
        ELSE IF p = 0 THEN no
        ELSE [ret |-> IF conv.endptr <= Len(field) THEN 0 ELSE 1,
              stored |-> TRUE, res |-> conv.value]

\* the sequences of at most n characters of chars
RECURSIVE Strings(_, _)
Strings(chars, n) ==
    IF n = 0 THEN {<<>>}
    ELSE Strings(chars, n - 1)
             \cup {Append(str, c) : str \in {x \in Strings(chars, n - 1) : Len(x) = n - 1},
                                    c \in chars}

\* the beginning of the line: the pid and the process name in parentheses, a
\* name that may hold spaces and parentheses; or a line cut before the ")"
LineStarts ==
    {<<"1", " ", "(", "a", ")", " ">>,
     <<"1", " ", "(", "a", " ", "1", ")", " ">>,
     <<"1", " ", "(", "a", ")", " ", "1", ")", " ">>,
     <<"1", " ", "(", "a">>}

\* what follows: fields of digits, of letters, or empty, with or without the
\* end of line
LineEnds ==
    {str \o nl : str \in Strings(Digits \cup {" ", "a"}, MaxTail), nl \in {<<>>, <<"\n">>}}

\* n fields holding 1
RECURSIVE Pad(_)
Pad(n) == IF n = 0 THEN <<>> ELSE <<"1", " ">> \o Pad(n - 1)

\* get_proc_stat_ll(i, &res) on a line, or on a file that cannot be read
ProcStatCall(t) ==
    /\ ~aborted /\ pc[t] = "idle"
    /\ \E i \in 2 .. MaxTail + 2, line \in {<<>>} \cup {a \o b : a \in LineStarts, b \in LineEnds} :
           LET r == get_proc_stat_ll(i, line)
           IN  frame' = [frame EXCEPT ![t] =
                   [NoFrame EXCEPT !.op = "get_proc_stat_ll", !.num = i,
                                   !.usable = r.ret,
                                   !.trace = <<Ev("read", line, 0)>> \o
                                       (IF r.stored THEN <<Ev("store", r.res, 0)>> ELSE <<>>)]]
    /\ pc' = [pc EXCEPT ![t] = "ret"]
    /\ UNCHANGED <<have_malloc_size, thread_index, total_active_threads,
                   used_memory_thread, used_memory_for_additional_threads,
                   zmalloc_oom_handler, heap, aborted, ncalls>>

\* zmalloc_get_rss where /proc/self/stat exists: field RssField times the page
\* size, a product that is undefined when it does not fit a long long; the line
\* has the fields before RssField, or lacks them
ProcRssCall(t) ==
    /\ ~aborted /\ pc[t] = "idle"
    /\ \E page \in PageSizes, a \in LineStarts, b \in LineEnds, full \in BOOLEAN,
          undefined \in {0, SIZE_MAX} :
           LET line == a \o (IF full THEN Pad(RssField - 3) ELSE <<>>) \o b
               r == get_proc_stat_ll(RssField, line)
               rss == IF r.ret = 0 THEN 0
                      ELSE IF r.res * page > LLONG_MAX THEN undefined
                      ELSE r.res * page
           IN  frame' = [frame EXCEPT ![t] =
                   [NoFrame EXCEPT !.op = "zmalloc_get_rss (proc)", !.num = page,
                                   !.usable = rss,
                                   !.trace = <<Ev("read", line, 0)>> \o
                                       (IF r.stored THEN <<Ev("store", r.res, r.ret)>>
                                        ELSE <<>>)]]
    /\ pc' = [pc EXCEPT ![t] = "ret"]
    /\ UNCHANGED <<have_malloc_size, thread_index, total_active_threads,
                   used_memory_thread, used_memory_for_additional_threads,
                   zmalloc_oom_handler, heap, aborted, ncalls>>

\* the call returns to its caller
Return(t) ==
    /\ ~aborted /\ pc[t] = "ret"
    /\ pc' = [pc EXCEPT ![t] = "idle"]
    /\ frame' = [frame EXCEPT ![t] = NoFrame]
    /\ UNCHANGED <<have_malloc_size, thread_index, total_active_threads, used_memory_thread,
                   used_memory_for_additional_threads, zmalloc_oom_handler, heap, aborted,
                   ncalls>>

\* the steps inside a call
Step(t) ==
    \/ Register(t)
    \/ StatAtomic(t)
    \/ StatLoad(t)
    \/ StatStore(t)
    \/ ShimFree(t)
    \/ OomHandler(t)
    \/ Return(t)

\* ------------------------------------------------------------ specification

\* The calling threads have not used the layer yet.  Threads that used it before
\* and have ended (each registered once, and released what it allocated) have
\* taken the first indices: none, all but one slot of the table, or all of it.
Init ==
    /\ have_malloc_size \in BOOLEAN
    /\ thread_index = [t \in Threads |-> -1]
    /\ total_active_threads \in {0, MAX_THREADS_NUM - 1, MAX_THREADS_NUM}
    /\ used_memory_thread = [i \in 0 .. MAX_THREADS_NUM - 1 |-> 0]
    /\ used_memory_for_additional_threads = 0
    /\ zmalloc_oom_handler = DefaultOom
    /\ heap = [p \in Ptrs |-> FreeBlock]
    /\ pc = [t \in Threads |-> "idle"]
    /\ frame = [t \in Threads |-> NoFrame]
    /\ aborted = FALSE
    /\ ncalls = 0

\* the block a ztrymalloc(1) of the thread of index 0 leaves when the allocator
\* adds nothing to the request
LeftBlock == [live |-> TRUE, size |-> 1, acc |-> AllocAccounted(1)]

\* As Init, and the first of the ended threads may have left one block behind.
InitConc ==
    /\ have_malloc_size \in BOOLEAN
    /\ thread_index = [t \in Threads |-> -1]
    /\ total_active_threads \in {0, MAX_THREADS_NUM - 1, MAX_THREADS_NUM}
    /\ \E left \in BOOLEAN :
           /\ left => total_active_threads > 0
           /\ heap = [p \in Ptrs |-> IF left /\ p = 1 THEN LeftBlock ELSE FreeBlock]
           /\ used_memory_thread = [i \in 0 .. MAX_THREADS_NUM - 1 |->
                                      IF left /\ i = 0 THEN AllocAccounted(1) ELSE 0]
    /\ used_memory_for_additional_threads = 0
    /\ zmalloc_oom_handler = DefaultOom
    /\ pc = [t \in Threads |-> "idle"]
    /\ frame = [t \in Threads |-> NoFrame]
    /\ aborted = FALSE
    /\ ncalls = 0

\* ---- the concurrent workload: every thread, one wrapper of each internal
\* ---- function, MaxCalls calls in all

Counted == ncalls < MaxCalls /\ ncalls' = ncalls + 1

ConcAlloc(t) == Counted /\ AllocCall(t, {"ztrymalloc"}, {0, 1})

ConcRealloc(t) == Counted /\ ReallocCall(t, {"ztryrealloc"}, Ptrs, {0, 1, HalfMax})

ConcFree(t) == Counted /\ FreeCall(t, Ptrs)

ConcFreeWithSize(t) == Counted /\ FreeWithSizeCall(t, Ptrs)

Next ==
    \E t \in Threads :
        \/ ConcAlloc(t)
        \/ ConcRealloc(t)
        \/ ConcFree(t)
        \/ ConcFreeWithSize(t)
        \/ Register(t)
        \/ StatAtomic(t)
        \/ StatLoad(t)
        \/ StatStore(t)
        \/ ShimFree(t)
        \/ Return(t)

Spec == InitConc /\ [][Next]_vars

\* ---- the API workload: one caller, every entry point, every argument, any
\* ---- number of calls

\* the calling thread: the first one
Caller == CHOOSE t \in Threads : \A u \in Threads : t <= u

ApiAlloc == AllocCall(Caller, MallocOps \cup CallocOps, Sizes) /\ ncalls' = ncalls

ApiCallocNum == CallocNumCall(Caller) /\ ncalls' = ncalls

ApiRealloc == ReallocCall(Caller, ReallocOps, {NULL} \cup Ptrs, Sizes) /\ ncalls' = ncalls

ApiFree == FreeCall(Caller, {NULL} \cup Ptrs) /\ ncalls' = ncalls

ApiFreeWithSize == FreeWithSizeCall(Caller, {NULL} \cup Ptrs) /\ ncalls' = ncalls

ApiSetOomHandler == SetOomHandler(Caller) /\ ncalls' = ncalls

NextApi ==
    \/ ApiAlloc
    \/ ApiCallocNum
    \/ ApiRealloc
    \/ ApiFree
    \/ ApiFreeWithSize
    \/ ApiSetOomHandler
    \/ Step(Caller)

SpecApi == Init /\ [][NextApi]_vars

\* ---- the pairs workload: every thread allocates and then frees the block it
\* ---- just got, MaxPairs pairs in all

PairAlloc(t) ==
    /\ ncalls < MaxPairs /\ ncalls' = ncalls + 1
    /\ AllocCall(t, {"ztrymalloc"}, {0, HalfMax - 1})

\* p = ztrymalloc(s); zfree(p);
PairFree(t) ==
    /\ ~aborted /\ pc[t] = "ret" /\ frame[t].op = "ztrymalloc" /\ frame[t].ret # NULL
    /\ FreeInternal(t, "zfree", frame[t].ret, 0)
    /\ UNCHANGED <<have_malloc_size, thread_index, total_active_threads,
                   used_memory_thread, used_memory_for_additional_threads,
                   zmalloc_oom_handler, aborted, ncalls>>

PairReturn(t) == (frame[t].op = "zfree" \/ frame[t].ret = NULL) /\ Return(t)

NextPairs ==
    \E t \in Threads :
        \/ PairAlloc(t)
        \/ PairFree(t)
        \/ PairReturn(t)
        \/ Register(t)
        \/ StatAtomic(t)
        \/ StatLoad(t)
        \/ StatStore(t)
        \/ ShimFree(t)

SpecPairs == Init /\ [][NextPairs]_vars

\* ---- the query workload: threads that allocate while others compute the
\* ---- total, MaxCalls calls in all

QueryAlloc(t) == Counted /\ AllocCall(t, {"ztrymalloc"}, {1})

QueryUsed(t) == Counted /\ UsedMemoryCall(t, {"zmalloc_used_memory", "zmalloc_get_rss"})

QueryInfo(t) == Counted /\ InfoCall(t)

NextQuery ==
    \E t \in Threads :
        \/ QueryAlloc(t)
        \/ QueryUsed(t)
        \/ QueryInfo(t)
        \/ Register(t)
        \/ StatAtomic(t)
        \/ StatLoad(t)
        \/ StatStore(t)
        \/ UsedMemoryCompare(t)
        \/ UsedMemoryOverflow(t)
        \/ UsedMemoryLoop(t)
        \/ Return(t)

SpecQuery == Init /\ [][NextQuery]_vars

\* ---- the scenario workload: every thread allocates blocks of ScenarioSize
\* ---- bytes, as many as the heap has room for, and any thread frees them,
\* ---- ScenarioCalls calls in all; what was allocated before the scenario stays

ScenarioCalls == MaxCalls + 2

ScenCounted == ncalls < ScenarioCalls /\ ncalls' = ncalls + 1

ScenAlloc(t) == ScenCounted /\ AllocCall(t, {"ztrymalloc"}, {ScenarioSize})

ScenFree(t) == ScenCounted /\ FreeCall(t, {p \in Ptrs : heap[p].size >= ScenarioSize})

NextScenario ==
    \E t \in Threads :
        \/ ScenAlloc(t)
        \/ ScenFree(t)
        \/ Register(t)
        \/ StatAtomic(t)
        \/ StatLoad(t)
        \/ StatStore(t)
        \/ ShimFree(t)
        \/ Return(t)

SpecScenario == InitConc /\ [][NextScenario]_vars

\* ---- the advise workload: one caller, zmadvise_dontneed on every block

NextAdvise ==
    \/ AdviseCall(Caller)
    \/ Return(Caller)

SpecAdvise == Init /\ [][NextAdvise]_vars

\* ---- the allocator information workload: one caller of
\* ---- zmalloc_get_allocator_info, in a jemalloc build

NextInfo ==
    \/ JeInfoCall(Caller)
    \/ Return(Caller)

SpecInfo == Init /\ [][NextInfo]_vars

\* ---- the /proc workload: one caller of get_proc_stat_ll and of the
\* ---- zmalloc_get_rss built on it

NextProcStat ==
    \/ ProcStatCall(Caller)
    \/ ProcRssCall(Caller)
    \/ Return(Caller)

SpecProcStat == Init /\ [][NextProcStat]_vars

\* ------------------------------------------------------------- properties

\* the events of kind e in the history of thread t's call
EventsOf(t, e) == SelectSeq(frame[t].trace, LAMBDA x : x.ev = e)

\* the history of thread t's call without the registration of the thread
Effects(t) == SelectSeq(frame[t].trace, LAMBDA x : x.ev # "register")

\* the counter thread t's updates go to, as the history names it
CounterOf(t) == IF thread_index[t] >= MAX_THREADS_NUM THEN -1 ELSE thread_index[t]

\* the size a live block is accounted with: the allocator's usable size, or the
\* stored header value plus the prefix
AccountedSize(p) ==
    IF have_malloc_size THEN heap[p].size ELSE heap[p].size + SizeofSizeT

RECURSIVE LiveTotalUpTo(_)
LiveTotalUpTo(n) ==
    IF n = 0 THEN 0
    ELSE (LiveTotalUpTo(n - 1) + (IF heap[n].live THEN AccountedSize(n) ELSE 0)) % SizeMod

LiveTotal == LiveTotalUpTo(MaxBlocks)

\* C1: whenever no call is in progress, zmalloc_used_memory() is, modulo 2^w,
\* the sum over the live blocks of their accounted sizes (zfree_with_size being
\* given the usable size of the block).
C1_UsedMemoryIsLiveTotal == Quiescent => UsedMemoryNow = LiveTotal

\* C1 happens: at rest after MaxCalls calls, with a live block, a table slot and
\* the overflow counter all in use
C1_Witness ==
    /\ Quiescent /\ ncalls = MaxCalls
    /\ LiveTotal > 0
    /\ used_memory_for_additional_threads # 0
    /\ \E i \in 0 .. MAX_THREADS_NUM - 1 : used_memory_thread[i] # 0

\* C2: threads that each allocate and free their own block, under every
\* interleaving, leave zmalloc_used_memory() at the value it had before they
\* started (0) once all have finished, and no block live.
C2_PairsRestoreBaseline ==
    Quiescent => UsedMemoryNow = 0 /\ \A p \in Ptrs : ~heap[p].live

\* C2 happens: all pairs done, by a thread of the table and by a thread beyond it
C2_Witness ==
    /\ Quiescent /\ ncalls = MaxPairs
    /\ \E t \in Threads : thread_index[t] # -1 /\ thread_index[t] < MAX_THREADS_NUM
    /\ \E t \in Threads : thread_index[t] >= MAX_THREADS_NUM

\* C3: zfree(ptr) of the block a successful ztrymalloc(s) of the same thread
\* returned subtracts exactly what the allocation added: once the subtraction
\* is done nothing remains attributed to the block, and the one subtraction of
\* the call took the accounted size of the block from the thread's own counter.
C3_FreeSubtractsWhatAllocAdded ==
    \A t \in Threads :
        frame[t].op = "zfree" /\ pc[t] = "free" =>
            /\ heap[frame[t].realptr].acc = 0
            /\ EventsOf(t, "stat_sub") = <<Ev("stat_sub", CounterOf(t), frame[t].presize)>>

\* C3 happens: the free of a block of the largest size has done its subtraction
C3_Witness ==
    \E t \in Threads :
        /\ frame[t].op = "zfree" /\ pc[t] = "free"
        /\ frame[t].presize >= HalfMax - 1

\* C4: after a successful ztrymalloc(s) or ztrymalloc_usable(s, &u),
\* zmalloc_usable_size(ptr) >= s, and u >= s.
C4_UsableAtLeastRequested ==
    \A t \in Threads :
        pc[t] = "ret" /\ frame[t].op \in {"ztrymalloc", "ztrymalloc_usable"}
                      /\ frame[t].ret # NULL =>
            /\ zmalloc_usable_size(frame[t].ret) >= frame[t].size
            /\ frame[t].op = "ztrymalloc_usable" => frame[t].usable >= frame[t].size

\* C4 happens: ztrymalloc_usable of the largest size below the guard succeeded
C4_Witness ==
    \E t \in Threads :
        /\ pc[t] = "ret" /\ frame[t].op = "ztrymalloc_usable" /\ frame[t].ret # NULL
        /\ frame[t].size = HalfMax - 1

\* C5: ztrymalloc(s) and ztrycalloc(s) with s >= SIZE_MAX / 2 return NULL in
\* one step: the allocator and the handler are not called, no thread is
\* registered and no counter changes.
C5_GuardedSizesFailQuietly ==
    [][\A t \in Threads :
          (pc[t] = "idle" /\ pc'[t] # "idle"
              /\ frame'[t].op \in {"ztrymalloc", "ztrycalloc"}
              /\ frame'[t].size >= SIZE_MAX \div 2) =>
            /\ pc'[t] = "ret"
            /\ frame'[t].ret = NULL
            /\ frame'[t].trace = <<>>
            /\ UNCHANGED <<thread_index, total_active_threads, used_memory_thread,
                           used_memory_for_additional_threads, zmalloc_oom_handler,
                           heap, aborted>>]_vars

\* C5 happens: ztrycalloc(SIZE_MAX / 2) is about to return NULL
C5_Witness ==
    \E t \in Threads :
        /\ pc[t] = "ret" /\ frame[t].op = "ztrycalloc" /\ frame[t].size = SIZE_MAX \div 2
        /\ frame[t].ret = NULL

\* C6: a call of ztrymalloc, ztrymalloc_usable, ztrycalloc, ztrycalloc_usable,
\* ztryrealloc or ztryrealloc_usable never invokes the handler and never ends
\* the process.
C6_TryNeverCallsHandler ==
    \A t \in Threads :
        frame[t].op \in TryOps =>
            pc[t] # "oom" /\ EventsOf(t, "oom") = <<>> /\ ~aborted

\* C6 happens: the underlying realloc failed in ztryrealloc_usable, which is
\* about to return NULL
C6_Witness ==
    \E t \in Threads :
        /\ pc[t] = "ret" /\ frame[t].op = "ztryrealloc_usable" /\ frame[t].ret = NULL
        /\ EventsOf(t, "realloc") # <<>>

\* the panicking calls C7 and C8 are about
PanickingCalls ==
    {"zmalloc", "zcalloc", "zmalloc_usable", "zcalloc_usable", "zrealloc", "zrealloc_usable"}

\* C7: with a handler h registered, a panicking call invokes no handler but the
\* registered one, with the requested size and at most once, and a failing
\* call of a size other than 0 that returns has invoked it exactly once.
C7_RegisteredHandlerWithSize ==
    \A t \in Threads :
        frame[t].op \in PanickingCalls /\ zmalloc_oom_handler # DefaultOom =>
            /\ \A i \in 1 .. Len(frame[t].trace) :
                   frame[t].trace[i].ev = "oom" =>
                       /\ frame[t].trace[i].a = zmalloc_oom_handler
                       /\ frame[t].trace[i].b = frame[t].size
            /\ Len(EventsOf(t, "oom")) <= 1
            /\ pc[t] = "ret" /\ frame[t].ret = NULL /\ frame[t].size # 0 =>
                   Len(EventsOf(t, "oom")) = 1

\* C7 happens: the handler registered last was invoked by a failing
\* zrealloc_usable of a live block
C7_Witness ==
    \E t \in Threads :
        /\ frame[t].op = "zrealloc_usable" /\ frame[t].ptr # NULL
        /\ zmalloc_oom_handler = NumHandlers
        /\ EventsOf(t, "oom") = <<Ev("oom", NumHandlers, frame[t].size)>>

\* C8: a panicking call whose handler was invoked and returned gives NULL to
\* its caller (and 0 as the usable size).
C8_NullAfterHandlerReturns ==
    \A t \in Threads :
        pc[t] = "ret" /\ frame[t].op \in PanickingCalls /\ EventsOf(t, "oom") # <<>> =>
            frame[t].ret = NULL /\ frame[t].usable = 0

\* C8 happens: the handler returned in a failing zcalloc_usable
C8_Witness ==
    \E t \in Threads :
        /\ pc[t] = "ret" /\ frame[t].op = "zcalloc_usable"
        /\ EventsOf(t, "oom") # <<>>

\* the default handler was invoked in thread t's call
DefaultInvoked(t) ==
    \E i \in 1 .. Len(frame[t].trace) :
        frame[t].trace[i].ev = "oom" /\ frame[t].trace[i].a = DefaultOom

\* C9: the invocation of the default handler ends the process: the call does
\* not return, and nothing changes after it.
C9_DefaultHandlerTerminates ==
    [][/\ aborted => UNCHANGED vars
       /\ \A t \in Threads : DefaultInvoked(t)' => aborted' /\ pc'[t] = "oom"]_vars

\* C9 happens: a failing zmalloc with no handler registered ended the process
C9_Witness ==
    \E t \in Threads :
        /\ aborted /\ DefaultInvoked(t) /\ frame[t].op = "zmalloc"
        /\ zmalloc_oom_handler = DefaultOom

\* what zfree(p) has done when it returns: the size read, the counter of the
\* thread decreased by the accounted size of the block, the block released
FreeEffects(t) ==
    <<Ev("read_size", frame[t].ptr, frame[t].presize - PREFIX_SIZE),
      Ev("stat_sub", CounterOf(t), frame[t].presize),
      Ev("free", frame[t].ptr, 0)>>

\* C10: ztryrealloc(ptr, 0) of a live block does what zfree(ptr) does and
\* returns NULL: the same decrement of the same counter, the block released.
C10_ReallocZeroIsFree ==
    \A t \in Threads :
        /\ pc[t] = "ret" /\ frame[t].ptr # NULL
        /\ \/ frame[t].op \in {"ztryrealloc", "ztryrealloc_usable"} /\ frame[t].size = 0
           \/ frame[t].op = "zfree"
        => /\ frame[t].ret = NULL /\ frame[t].usable = 0
           /\ ~heap[frame[t].ptr].live
           /\ Effects(t) = FreeEffects(t)

\* C10 happens: ztryrealloc(ptr, 0) of a live block is about to return
C10_Witness ==
    \E t \in Threads :
        /\ pc[t] = "ret" /\ frame[t].ptr # NULL
        /\ frame[t].op = "ztryrealloc" /\ frame[t].size = 0
        /\ Len(frame[t].trace) >= 3

\* what ztrymalloc(s) has done when it returns, s being the size of the call of
\* thread t: nothing above the guard, else the underlying malloc of the size
\* rounded up plus the prefix and, when it succeeded, one addition of the
\* accounted size of the new block to the thread's counter
TryMallocOutcome(t) ==
    LET s == frame[t].size
        req == (MALLOC_MIN_SIZE(s) + PREFIX_SIZE) % SizeMod
    IN  /\ EventsOf(t, "oom") = <<>>
        /\ IF s >= SIZE_MAX \div 2
           THEN frame[t].ret = NULL /\ frame[t].usable = 0 /\ frame[t].trace = <<>>
           ELSE IF frame[t].ret = NULL
           THEN frame[t].usable = 0 /\ Effects(t) = <<Ev("malloc", req, NULL)>>
           ELSE /\ heap[frame[t].ret].live
                /\ frame[t].usable = zmalloc_usable_size(frame[t].ret)
                /\ Effects(t) = <<Ev("malloc", req, frame[t].ret),
                                  Ev("stat_add", CounterOf(t), AccountedSize(frame[t].ret))>>

\* C11: ztryrealloc(NULL, s) does what ztrymalloc(s) does, for every s: the
\* same NULL or non-NULL outcome, the same usable size, the same accounting
\* change, and no handler invocation.
C11_ReallocNullIsMalloc ==
    \A t \in Threads :
        pc[t] = "ret" /\ frame[t].ptr = NULL
                      /\ frame[t].op \in {"ztrymalloc", "ztryrealloc"} =>
            TryMallocOutcome(t)

\* C11 happens: ztryrealloc(NULL, 0) returned a block
C11_Witness ==
    \E t \in Threads :
        /\ pc[t] = "ret" /\ frame[t].op = "ztryrealloc" /\ frame[t].ptr = NULL
        /\ frame[t].size = 0 /\ frame[t].ret # NULL

\* thread t is about to return from a successful reallocation of a live block
\* to a size in (0, SIZE_MAX / 2)
ReallocDone(t) ==
    /\ pc[t] = "ret" /\ frame[t].op \in ReallocOps
    /\ frame[t].ptr # NULL /\ frame[t].ret # NULL
    /\ 0 < frame[t].size /\ frame[t].size < SIZE_MAX \div 2

\* C12 as stated: the reallocation subtracts the old accounted size of the block
\* and adds its new accounted size.
C12_AsStated ==
    \A t \in Threads :
        ReallocDone(t) =>
            /\ EventsOf(t, "stat_sub") = <<Ev("stat_sub", CounterOf(t), frame[t].presize)>>
            /\ EventsOf(t, "stat_add") =
                   <<Ev("stat_add", CounterOf(t), AccountedSize(frame[t].ret))>>

\* C12, amended: a successful reallocation of a live block to a size in
\* (0, SIZE_MAX / 2) reads the old size before the underlying realloc, then
\* subtracts the old usable size (the header value, without the prefix, in the
\* header build) from the thread's counter and adds the new usable size, so
\* that the block is accounted with its new accounted size; in the header build
\* the header of the new block holds the new size.
C12_ReallocAccountsUsableSizes ==
    \A t \in Threads :
        ReallocDone(t) =>
            LET old == frame[t].presize - PREFIX_SIZE
                new == zmalloc_usable_size(frame[t].ret)
            IN  /\ Effects(t) =
                       <<Ev("read_size", frame[t].ptr, old),
                         Ev("realloc", frame[t].size + PREFIX_SIZE, frame[t].ret),
                         Ev("stat_sub", CounterOf(t), old),
                         Ev("stat_add", CounterOf(t), new)>>
                /\ heap[frame[t].ret].acc = AccountedSize(frame[t].ret)
                /\ ~have_malloc_size => heap[frame[t].ret].size = frame[t].size

\* C12 happens: in the header build, a block was moved by a reallocation to the
\* largest size
C12_Witness ==
    \E t \in Threads :
        /\ ReallocDone(t) /\ ~have_malloc_size
        /\ frame[t].ret # frame[t].ptr
        /\ frame[t].size = SIZE_MAX \div 2 - 1

\* thread t is in a reallocation of a live block to a size other than 0
InRealloc(t) ==
    /\ pc[t] # "idle" /\ frame[t].op \in ReallocOps
    /\ frame[t].ptr # NULL /\ frame[t].size # 0

\* C13 as stated: the subtraction of the old size is done before the underlying
\* realloc, the addition of the new size after it.
C13_AsStated ==
    \A t \in Threads :
        InRealloc(t) =>
            \A i, j \in 1 .. Len(frame[t].trace) :
                frame[t].trace[j].ev = "realloc" =>
                    /\ frame[t].trace[i].ev = "stat_sub" => i < j
                    /\ frame[t].trace[i].ev = "stat_add" => j < i

\* C13, amended: in a reallocation of a live block to a size in
\* (0, SIZE_MAX / 2), both accounting updates come after the underlying realloc
\* and only when it succeeded, the subtraction of the old size first and the
\* addition of the new size second; the old size is read before the realloc.
C13_UpdatesFollowRealloc ==
    \A t \in Threads :
        InRealloc(t) /\ frame[t].size < SIZE_MAX \div 2 =>
            \A i \in 1 .. Len(frame[t].trace) :
                /\ frame[t].trace[i].ev \in {"stat_sub", "stat_add"} =>
                       \E j \in 1 .. i - 1 :
                           frame[t].trace[j].ev = "realloc" /\ frame[t].trace[j].b # NULL
                /\ frame[t].trace[i].ev = "stat_add" =>
                       \E j \in 1 .. i - 1 : frame[t].trace[j].ev = "stat_sub"
                /\ frame[t].trace[i].ev = "realloc" =>
                       \E j \in 1 .. i - 1 : frame[t].trace[j].ev = "read_size"

\* C13 happens: the underlying realloc has succeeded in zrealloc and no
\* accounting update has been done yet
C13_Witness ==
    \E t \in Threads :
        /\ InRealloc(t) /\ frame[t].op = "zrealloc" /\ pc[t] = "stat"
        /\ EventsOf(t, "realloc") # <<>>
        /\ EventsOf(t, "stat_sub") = <<>>
        /\ Len(frame[t].todo) = 2

\* thread t is in an allocation call for 0 bytes: a malloc or calloc wrapper
\* with a size of 0, or zcalloc_num with a size of 0 or a product of 0
ZeroSized(t) ==
    /\ pc[t] # "idle" /\ frame[t].size = 0
    /\ frame[t].op \in MallocOps \cup CallocOps \cup {"zcalloc_num"}

\* the underlying allocator refused the request of thread t's call
AllocatorFailed(t) ==
    \E i \in 1 .. Len(frame[t].trace) :
        frame[t].trace[i].ev \in {"malloc", "calloc"} /\ frame[t].trace[i].b = NULL

\* C14 as stated: an allocation call for 0 bytes fails only when the underlying
\* allocator fails; otherwise it returns a live block, accounted with the
\* minimum allocation unit.
C14_AsStated ==
    \A t \in Threads :
        ZeroSized(t) =>
            /\ pc[t] = "oom" \/ (pc[t] = "ret" /\ frame[t].ret = NULL) => AllocatorFailed(t)
            /\ pc[t] = "ret" /\ frame[t].ret # NULL =>
                   /\ heap[frame[t].ret].live
                   /\ zmalloc_usable_size(frame[t].ret) >= SizeofLong
                   /\ heap[frame[t].ret].acc = AccountedSize(frame[t].ret)

\* C14 diverges: zcalloc_num with an element size of 0 goes to the handler
\* without having called the underlying allocator
C14_Witness ==
    \E t \in Threads :
        /\ ZeroSized(t) /\ frame[t].op = "zcalloc_num" /\ frame[t].num > 0
        /\ pc[t] = "oom" /\ frame[t].trace = <<>>

\* in the header build, thread t is about to return from a successful malloc or
\* calloc wrapper called with a size below the minimum allocation unit
SmallAllocDone(t) ==
    /\ ~have_malloc_size
    /\ pc[t] = "ret" /\ frame[t].op \in MallocOps \cup CallocOps
    /\ frame[t].ret # NULL /\ frame[t].size < SizeofLong

\* C15 as stated: in the header build every size below the minimum allocation
\* unit is rounded up to the unit, which is what zmalloc_usable_size reports.
C15_AsStated ==
    \A t \in Threads :
        SmallAllocDone(t) => zmalloc_usable_size(frame[t].ret) = SizeofLong

\* C15, amended: in the header build zmalloc_usable_size of a block requested
\* with a size below the minimum allocation unit is the unit for a request of
\* 0 bytes and the raw request for any other size.
C15_OnlyZeroIsRoundedUp ==
    \A t \in Threads :
        SmallAllocDone(t) =>
            zmalloc_usable_size(frame[t].ret) =
                IF frame[t].size = 0 THEN SizeofLong ELSE frame[t].size

\* C15 happens: a request of 1 byte got a block whose usable size is 1
C15_Witness ==
    \E t \in Threads :
        /\ SmallAllocDone(t) /\ frame[t].size = 1
        /\ zmalloc_usable_size(frame[t].ret) = 1

\* the header of block p plus the prefix
HeaderPlusPrefix(p) == (heap[p].size + SizeofSizeT) % SizeMod

\* C16: in the header build every live block contributes its header value plus
\* PREFIX_SIZE to the aggregate: that is what is attributed to the block when
\* the allocation or reallocation that returns it has done its updates and
\* whenever no call is in progress, the aggregate is the sum of these
\* contributions, and a release takes all of it away.
C16_HeaderOverheadAccounted ==
    ~have_malloc_size =>
        /\ \A t \in Threads :
               /\ pc[t] = "ret" /\ frame[t].ret # NULL =>
                      heap[frame[t].ret].acc = HeaderPlusPrefix(frame[t].ret)
               /\ pc[t] = "free" => heap[frame[t].realptr].acc = 0
        /\ Quiescent =>
               /\ \A p \in Ptrs : heap[p].live => heap[p].acc = HeaderPlusPrefix(p)
               /\ UsedMemoryNow = LiveTotal

\* C16 happens: in the header build a reallocation that changed the size of a
\* block has done its updates
C16_Witness ==
    \E t \in Threads :
        /\ ~have_malloc_size
        /\ pc[t] = "ret" /\ frame[t].op = "ztryrealloc" /\ frame[t].ret # NULL
        /\ frame[t].ptr # NULL
        /\ frame[t].presize # HeaderPlusPrefix(frame[t].ret)

\* C17: zmalloc_usable_size(ptr) stays the same as long as the allocation
\* lives: the only step, of any thread, that changes it is the underlying
\* realloc of a reallocation of that very pointer.
C17_UsableSizeStable ==
    [][\A p \in Ptrs :
          (heap[p].live /\ heap'[p].live
              /\ zmalloc_usable_size(p)' # zmalloc_usable_size(p)) =>
            \E t \in Threads :
                /\ pc[t] = "idle" /\ frame'[t].op \in ReallocOps
                /\ frame'[t].ptr = p /\ frame'[t].ret = p]_vars

\* C17 happens: a reallocation has changed the usable size of a block in place
\* while another block is live
C17_Witness ==
    \E t \in Threads, p \in Ptrs :
        /\ pc[t] # "idle" /\ frame[t].op \in ReallocOps
        /\ frame[t].ptr # NULL /\ frame[t].ret = frame[t].ptr
        /\ frame[t].presize # zmalloc_size(frame[t].ret)
        /\ p # frame[t].ret /\ heap[p].live

\* the calls that report the usable size through an out-parameter
UsableCalls ==
    {"zmalloc_usable", "ztrymalloc_usable", "zcalloc_usable", "ztrycalloc_usable",
     "zrealloc_usable", "ztryrealloc_usable"}

\* C18: when a call with a usable-size out-parameter returns a block, the
\* out-parameter holds what zmalloc_usable_size of the block reports at that
\* moment; when it returns NULL, the out-parameter holds 0.
C18_UsableOutMatchesQuery ==
    \A t \in Threads :
        pc[t] = "ret" /\ frame[t].op \in UsableCalls =>
            frame[t].usable =
                IF frame[t].ret = NULL THEN 0 ELSE zmalloc_usable_size(frame[t].ret)

\* C18 happens: in the header build zrealloc_usable returns a block to which
\* the allocation was moved
C18_Witness ==
    \E t \in Threads :
        /\ pc[t] = "ret" /\ frame[t].op = "zrealloc_usable" /\ ~have_malloc_size
        /\ frame[t].ptr # NULL /\ frame[t].ret # NULL /\ frame[t].ret # frame[t].ptr
        /\ frame[t].usable > 0

\* C19: zfree_with_size(ptr, size), given the usable size of the block, has the
\* effect of zfree(ptr) on the accounting and on the heap: one subtraction, from
\* the same counter, of the same amount (the usable size, plus PREFIX_SIZE in
\* the header build), and the release of the same block.
C19_FreeWithSizeIsFree ==
    \A t \in Threads :
        pc[t] = "ret" /\ frame[t].ptr # NULL
                      /\ frame[t].op \in {"zfree", "zfree_with_size"} =>
            /\ EventsOf(t, "stat_sub") = <<Ev("stat_sub", CounterOf(t), frame[t].presize)>>
            /\ EventsOf(t, "stat_add") = <<>>
            /\ EventsOf(t, "free") = <<Ev("free", frame[t].ptr, 0)>>
            /\ ~heap[frame[t].ptr].live
            /\ frame[t].op = "zfree_with_size" =>
                   frame[t].presize = frame[t].size + PREFIX_SIZE

\* C19 happens: in the header build zfree_with_size has released a block
C19_Witness ==
    \E t \in Threads :
        /\ pc[t] = "ret" /\ frame[t].ptr # NULL /\ frame[t].op = "zfree_with_size"
        /\ ~have_malloc_size /\ frame[t].size > 0

\* what the call zcalloc_num(num, size) of thread t does first: with a product
\* that wraps, it goes to the handler with SIZE_MAX, having called no allocator
\* and changed no counter; with a product that does not, it passes num * size on
CallocNumStarts(t, num, size) ==
    /\ frame'[t].num = num
    /\ IF size = 0
       THEN frame'[t].size = 0
       ELSE IF num > SIZE_MAX \div size
       THEN /\ frame'[t].size = size
            /\ pc'[t] = "oom" /\ frame'[t].oomarg = SIZE_MAX
            /\ frame'[t].trace = <<>> /\ frame'[t].ret = NULL
            /\ UNCHANGED <<thread_index, total_active_threads, used_memory_thread,
                           used_memory_for_additional_threads, heap>>
       ELSE /\ num * size <= SIZE_MAX
            /\ frame'[t].size = num * size
            /\ frame'[t].oomarg = num * size

\* a zcalloc_num that found the product wrapping: the handler is invoked with
\* SIZE_MAX, nothing else is done, and NULL is returned if the handler returns
CallocNumRefused(t) ==
    frame[t].op = "zcalloc_num" /\ frame[t].oomarg = SIZE_MAX =>
        /\ frame[t].ret = NULL
        /\ \/ pc[t] = "oom" /\ frame[t].trace = <<>>
           \/ /\ pc[t] = "ret" \/ aborted
              /\ frame[t].trace = <<Ev("oom", zmalloc_oom_handler, SIZE_MAX)>>

\* C20: zcalloc_num(num, size) with size > 0 and num > SIZE_MAX / size calls no
\* allocator and changes no counter, invokes the handler with SIZE_MAX and
\* returns NULL if the handler returns; with num <= SIZE_MAX / size it passes
\* on exactly num * size, which does not wrap.
C20_CallocNumDetectsWrap ==
    /\ [](\A t \in Threads : CallocNumRefused(t))
    /\ [][\A t \in Threads :
             (pc[t] = "idle" /\ pc'[t] # "idle" /\ frame'[t].op = "zcalloc_num") =>
                 \E ns \in NumSizes : CallocNumStarts(t, ns[1], ns[2])]_vars

\* C20 happens: zcalloc_num returns NULL after the handler, invoked for a
\* product that wraps, has returned
C20_Witness ==
    \E t \in Threads :
        /\ pc[t] = "ret" /\ frame[t].op = "zcalloc_num"
        /\ frame[t].size > 0 /\ frame[t].num > SIZE_MAX \div frame[t].size
        /\ frame[t].trace # <<>>

\* the threads that have an index
Registered == {t \in Threads : thread_index[t] # -1}

\* the indices are those of different positions below total_active_threads,
\* which counts the threads that have entered an accounting update (the ended
\* ones, which took the first indices, and the registered ones); a thread that
\* has done an update has an index
IndicesDistinct ==
    /\ \A t \in Registered : 0 <= thread_index[t] /\ thread_index[t] < total_active_threads
    /\ \A t, u \in Registered : t # u => thread_index[t] # thread_index[u]
    /\ total_active_threads - Cardinality(Registered) \in {0, MAX_THREADS_NUM - 1, MAX_THREADS_NUM}
    /\ \A t \in Threads :
           EventsOf(t, "stat_add") # <<>> \/ EventsOf(t, "stat_sub") # <<>> => t \in Registered

\* a step changes an index only by giving a thread that has none, and is in an
\* accounting update, the value of total_active_threads, which it increments in
\* the same step; nothing else changes total_active_threads
IndexAssignedOnce ==
    /\ \A t \in Threads :
           thread_index'[t] # thread_index[t] =>
               /\ thread_index[t] = -1 /\ pc[t] = "stat"
               /\ thread_index'[t] = total_active_threads
               /\ total_active_threads' = total_active_threads + 1
               /\ \A u \in Threads \ {t} : thread_index'[u] = thread_index[u]
    /\ total_active_threads' # total_active_threads => thread_index' # thread_index

UpdateStep(t) ==
    /\ Len(frame'[t].trace) = Len(frame[t].trace) + 1
    /\ frame'[t].trace[Len(frame'[t].trace)].ev \in {"stat_add", "stat_sub"}

\* the counter value old after the update the step of thread t completes
Updated(t, old) ==
    LET u == frame'[t].trace[Len(frame'[t].trace)]
    IN  IF u.ev = "stat_add" THEN (old + u.b) % SizeMod
        ELSE (old + SizeMod - (u.b % SizeMod)) % SizeMod

\* an update changes the slot of the thread's index when the index is below
\* MAX_THREADS_NUM and the overflow counter otherwise, and nothing else; no
\* other step changes a counter
OneCounterPerUpdate ==
    /\ \A t \in Threads :
           UpdateStep(t) =>
               IF thread_index[t] < MAX_THREADS_NUM
               THEN /\ used_memory_thread' =
                           [used_memory_thread EXCEPT ![thread_index[t]] = Updated(t, @)]
                    /\ UNCHANGED used_memory_for_additional_threads
               ELSE /\ used_memory_for_additional_threads' =
                           Updated(t, used_memory_for_additional_threads)
                    /\ UNCHANGED used_memory_thread
    /\ (used_memory_thread' # used_memory_thread
           \/ used_memory_for_additional_threads' # used_memory_for_additional_threads) =>
               \E t \in Threads : UpdateStep(t)

\* C22: every accounting update of a thread changes exactly one counter: its
\* slot of used_memory_thread when its index is below MAX_THREADS_NUM, else
\* used_memory_for_additional_threads; the other slots and the other counter
\* stay as they are.
C22_OneCounterPerUpdate == [][OneCounterPerUpdate]_vars

\* C22 happens: a thread beyond the table has done an update while a slot of
\* the table holds bytes
C22_Witness ==
    \E t \in Threads, i \in 0 .. MAX_THREADS_NUM - 1 :
        /\ thread_index[t] >= MAX_THREADS_NUM
        /\ EventsOf(t, "stat_add") # <<>>
        /\ used_memory_thread[i] # 0
        /\ used_memory_for_additional_threads # 0

\* between the load and the store of a thread's update of its slot, nobody has
\* written the slot
NoLostUpdate ==
    \A t \in Threads :
        pc[t] = "stat_wr" => frame[t].tmp = used_memory_thread[thread_index[t]]

\* a slot is written only in a step of the thread that holds its index; the
\* overflow counter and total_active_threads change only by one atomic
\* read-modify-write
OwnerWritesSlot ==
    /\ \A i \in 0 .. MAX_THREADS_NUM - 1 :
           used_memory_thread'[i] # used_memory_thread[i] =>
               \E t \in Threads : thread_index[t] = i /\ frame'[t] # frame[t]
    /\ used_memory_for_additional_threads' # used_memory_for_additional_threads =>
           \E t \in Threads :
               /\ thread_index[t] >= MAX_THREADS_NUM /\ pc[t] = "stat"
               /\ UpdateStep(t)
               /\ used_memory_for_additional_threads' =
                      Updated(t, used_memory_for_additional_threads)
    /\ total_active_threads' # total_active_threads =>
           total_active_threads' = total_active_threads + 1

\* C23: a slot of used_memory_thread is written only by the thread that owns
\* its index, under every interleaving, so that no update of a slot is lost;
\* what several threads write, total_active_threads and
\* used_memory_for_additional_threads, they write by atomic fetch-and-add or
\* fetch-and-subtract.
C23_SlotsWrittenByOwner == []NoLostUpdate /\ [][OwnerWritesSlot]_vars

\* C23 happens: two threads are between the load and the store of an update,
\* each of its own slot
C23_Witness ==
    \E t, u \in Threads :
        /\ t # u /\ pc[t] = "stat_wr" /\ pc[u] = "stat_wr"
        /\ thread_index[t] # thread_index[u]

\* thread t is computing the total
InUsedMemory(t) ==
    pc[t] # "idle" /\ frame[t].op \in {"zmalloc_used_memory", "zmalloc_get_rss"}

\* C24: zmalloc_used_memory() reads the slots 0, 1, ... in order, all below
\* MAX_THREADS_NUM and below total_active_threads, whatever registers between
\* its two reads of total_active_threads: as many as the first read says, or
\* MAX_THREADS_NUM of them when the second read is above MAX_THREADS_NUM; and it
\* reads the overflow counter, once, exactly in that case.
C24_ReadsStayInTable ==
    \A t \in Threads :
        InUsedMemory(t) =>
            LET slots == EventsOf(t, "read_slot")
                first == frame[t].trace[1].a
                over == frame[t].trace[2].a > MAX_THREADS_NUM
            IN  /\ \A i \in 1 .. Len(slots) :
                       /\ slots[i].a = i - 1
                       /\ slots[i].a < MAX_THREADS_NUM
                       /\ slots[i].a < total_active_threads
                /\ pc[t] # "um_cmp" =>
                       /\ Len(EventsOf(t, "read_over")) =
                              IF over /\ pc[t] # "um_over" THEN 1 ELSE 0
                       /\ pc[t] = "um_over" => over
                       /\ pc[t] = "ret" =>
                              Len(slots) = IF over THEN MAX_THREADS_NUM ELSE first

\* C24 happens: a thread registered between the two reads, taking
\* total_active_threads above MAX_THREADS_NUM
C24_Witness ==
    \E t \in Threads :
        /\ InUsedMemory(t) /\ pc[t] = "ret"
        /\ frame[t].trace[1].a = MAX_THREADS_NUM
        /\ frame[t].trace[2].a = MAX_THREADS_NUM + 1

\* the threads whose index is beyond the table
Beyond == {t \in Threads : thread_index[t] >= MAX_THREADS_NUM}

\* C25: a thread in an accounting update past its registration has an index,
\* however many registered before it; every update of a thread whose index is
\* MAX_THREADS_NUM or more goes to the overflow counter; as soon as there is
\* such a thread total_active_threads is above MAX_THREADS_NUM, so that
\* zmalloc_used_memory() is the overflow counter plus the whole table, and at
\* rest that is the total of the live blocks.
C25_OverflowThreadsCounted ==
    /\ \A t \in Threads :
           pc[t] \in {"stat_wr"} \/ EventsOf(t, "register") # <<>> => thread_index[t] >= 0
    /\ \A t \in Beyond :
           /\ \A i \in 1 .. Len(frame[t].trace) :
                  frame[t].trace[i].ev \in {"stat_add", "stat_sub"} => frame[t].trace[i].a = -1
           /\ pc[t] # "stat_wr"
    /\ Beyond # {} =>
           /\ total_active_threads > MAX_THREADS_NUM
           /\ UsedMemoryNow = Add(used_memory_for_additional_threads, SumSlots(MAX_THREADS_NUM))
           /\ Quiescent => UsedMemoryNow = LiveTotal

\* C25 happens: at rest, the thread of index exactly MAX_THREADS_NUM is the
\* only one beyond the table and has a live block accounted
C25_Witness ==
    /\ Quiescent
    /\ total_active_threads = MAX_THREADS_NUM + 1
    /\ \E t \in Threads : thread_index[t] = MAX_THREADS_NUM
    /\ used_memory_for_additional_threads > 0
    /\ LiveTotal > 0

\* the blocks of the scenario that are live
ScenarioBlocks == {p \in Ptrs : heap[p].live /\ heap[p].size >= ScenarioSize}

\* what zmalloc_used_memory() was before the scenario: the block left by an
\* ended thread
Baseline == IF heap[1] = LeftBlock THEN AllocAccounted(1) ELSE 0

\* what a block costs above its size: the header, or what the allocator rounds
\* the request up by
PerBlockOverhead == IF have_malloc_size THEN MaxSlack ELSE PREFIX_SIZE

\* C26: with B blocks of ScenarioSize bytes allocated by the threads and not
\* freed, and no call in progress, zmalloc_used_memory() is above its baseline by
\* B * ScenarioSize at least and by B * (ScenarioSize + overhead) at most (and
\* exactly, in the header build, where the overhead is the prefix); when every
\* block has been freed, by whichever thread, it is the baseline again.
C26_ScenarioWithinBounds ==
    Quiescent =>
        LET B == Cardinality(ScenarioBlocks)
            used == Sub(UsedMemoryNow, Baseline)
        IN  /\ used >= B * ScenarioSize
            /\ used <= B * (ScenarioSize + PerBlockOverhead)
            /\ ~have_malloc_size => used = B * (ScenarioSize + PREFIX_SIZE)
            /\ B = 0 => UsedMemoryNow = Baseline

\* C26 happens: every thread took part, a block was freed by a thread beyond the
\* table that had not allocated it, all blocks are freed and the baseline is
\* not 0
C26_Witness ==
    /\ Quiescent /\ ScenarioBlocks = {}
    /\ Registered = Threads
    /\ used_memory_for_additional_threads # 0
    /\ Baseline > 0

\* the first page boundary at or after an address
RoundUp(ptr, page_size) == ((ptr + page_size - 1) \div page_size) * page_size

\* C27: when zmadvise_dontneed advises (at most once, and only on jemalloc on
\* Linux), the start is the pointer rounded up to a page boundary and the length
\* is what is left of the block from there, truncated to whole pages and at
\* least one page: the range is inside the block and nothing underflows. Nothing
\* is advised for a NULL pointer, for a size_hint that is not 0 with
\* size_hint / 2 below the page size, for a block smaller than a page, when less
\* than a page is left after the alignment, and on the other builds.
C27_AdviseWholePagesInside ==
    \A t \in Threads :
        pc[t] = "ret" /\ frame[t].op = "zmadvise_dontneed" =>
            LET ptr == frame[t].ptr
                size_hint == frame[t].size
                real_size == frame[t].presize
                page_size == frame[t].num
                jemalloc_linux == frame[t].trace[1].a
                adv == EventsOf(t, "madvise")
                left == ptr + real_size - RoundUp(ptr, page_size)
            IN  /\ Len(adv) <= 1
                /\ adv # <<>> =>
                       /\ adv[1].a = RoundUp(ptr, page_size)
                       /\ left >= page_size
                       /\ adv[1].b = (left \div page_size) * page_size
                       /\ adv[1].b > 0
                       /\ ptr <= adv[1].a
                       /\ adv[1].a + adv[1].b <= ptr + real_size
                /\ (\/ ~jemalloc_linux
                    \/ ptr = NULL
                    \/ size_hint # 0 /\ size_hint \div 2 < page_size
                    \/ real_size < page_size
                    \/ left < page_size) => adv = <<>>

\* C27 happens: a block that starts and ends inside a page is advised, with a
\* size_hint given
C27_Witness ==
    \E t \in Threads :
        /\ pc[t] = "ret" /\ frame[t].op = "zmadvise_dontneed"
        /\ frame[t].size # 0
        /\ EventsOf(t, "madvise") # <<>>
        /\ EventsOf(t, "madvise")[1].a > frame[t].ptr
        /\ EventsOf(t, "madvise")[1].a + EventsOf(t, "madvise")[1].b
               < frame[t].ptr + frame[t].presize

\* what the accounting consists of
Accounting ==
    <<thread_index, total_active_threads, used_memory_thread,
      used_memory_for_additional_threads, heap, zmalloc_oom_handler>>

\* a call of InfoOps that has returned gave zeros and success: 0 in allocated,
\* resident and active, 0 in retained and in muzzy exactly when they are given,
\* and 1 returned by zmalloc_get_allocator_info; nothing stored and 0 returned
\* by the two others
InfoGivesZeros ==
    \A t \in Threads :
        pc[t] = "ret" /\ frame[t].op \in InfoOps =>
            LET out(e) == EventsOf(t, e)
            IN  IF frame[t].op = "zmalloc_get_allocator_info"
                THEN /\ out("set_allocated") = <<Ev("set_allocated", 0, 0)>>
                     /\ out("set_active") = <<Ev("set_active", 0, 0)>>
                     /\ out("set_resident") = <<Ev("set_resident", 0, 0)>>
                     /\ out("set_retained") =
                            IF frame[t].num = 1 THEN <<Ev("set_retained", 0, 0)>> ELSE <<>>
                     /\ out("set_muzzy") =
                            IF frame[t].size = 1 THEN <<Ev("set_muzzy", 0, 0)>> ELSE <<>>
                     /\ Len(frame[t].trace) = 3 + frame[t].num + frame[t].size
                     /\ frame[t].usable = 1
                ELSE frame[t].trace = <<>> /\ frame[t].usable = 0

\* a call of InfoOps is one step of its thread, and that step leaves the
\* accounting as it is
InfoChangesNothing ==
    \A t \in Threads :
        frame'[t] # frame[t] /\ frame'[t].op \in InfoOps => UNCHANGED Accounting

\* C28: where the allocator is not jemalloc, zmalloc_get_allocator_info stores 0
\* in allocated, active and resident, and in retained and muzzy when they are
\* not NULL, and returns 1; jemalloc_purge returns 0; set_jemalloc_bg_thread
\* does nothing; none of them changes a counter, an index, a block or the
\* handler.
C28_NoIntrospectionGivesZeros == []InfoGivesZeros /\ [][InfoChangesNothing]_vars

\* C28 happens: zmalloc_get_allocator_info returned with retained given and
\* muzzy NULL, while memory is accounted
C28_Witness ==
    \E t \in Threads :
        /\ pc[t] = "ret" /\ frame[t].op = "zmalloc_get_allocator_info"
        /\ frame[t].num = 1 /\ frame[t].size = 0
        /\ UsedMemoryNow > 0

\* the sum of what a call of zmalloc_used_memory has read from the counters
RECURSIVE SumReads(_)
SumReads(tr) ==
    IF tr = <<>> THEN 0
    ELSE LET e == tr[Len(tr)]
             before == SumReads(SubSeq(tr, 1, Len(tr) - 1))
         IN  IF e.ev = "read_over" THEN Add(before, e.a)
             ELSE IF e.ev = "read_slot" THEN Add(before, e.b)
             ELSE before

\* everything thread t's call has read is still what the state holds
ReadsCurrent(t) ==
    \A i \in 1 .. Len(frame[t].trace) :
        LET e == frame[t].trace[i]
        IN  /\ e.ev = "read_total" => e.a = total_active_threads
            /\ e.ev = "read_over" => e.a = used_memory_for_additional_threads
            /\ e.ev = "read_slot" => e.b = used_memory_thread[e.a]

\* zmalloc_get_rss returns the sum zmalloc_used_memory made, which is
\* zmalloc_used_memory() of the state when no counter moved meanwhile
RssIsUsedMemory ==
    \A t \in Threads :
        pc[t] = "ret" /\ frame[t].op = "zmalloc_get_rss" =>
            /\ frame[t].usable = SumReads(frame[t].trace)
            /\ ReadsCurrent(t) => frame[t].usable = UsedMemoryNow

\* the steps a thread takes in zmalloc_get_rss leave the accounting as it is
RssChangesNothing ==
    \A t \in Threads :
        /\ frame'[t] # frame[t] \/ pc'[t] # pc[t]
        /\ frame[t].op = "zmalloc_get_rss" \/ frame'[t].op = "zmalloc_get_rss"
        => UNCHANGED Accounting

\* C29: zmalloc_get_rss(), where it has no OS-specific source, returns what its
\* call of zmalloc_used_memory() computed, that is zmalloc_used_memory() of the
\* state it ran in, and changes no counter.
C29_RssFallsBackToUsedMemory == []RssIsUsedMemory /\ [][RssChangesNothing]_vars

\* C29 happens: zmalloc_get_rss returned a total that is not 0, from the
\* overflow counter and the table, in a state that did not move
C29_Witness ==
    \E t \in Threads :
        /\ pc[t] = "ret" /\ frame[t].op = "zmalloc_get_rss"
        /\ ReadsCurrent(t)
        /\ EventsOf(t, "read_over") # <<>>
        /\ frame[t].usable > 0

\* thread t's ztryrealloc or ztryrealloc_usable of a block, with a size the
\* guard refuses, has returned
ReallocRefused(t) ==
    /\ pc[t] = "ret" /\ frame[t].op \in {"ztryrealloc", "ztryrealloc_usable"}
    /\ frame[t].ptr # NULL
    /\ frame[t].size >= SIZE_MAX \div 2

\* C30: ztryrealloc / ztryrealloc_usable of a live block with a size of
\* SIZE_MAX / 2 or more returns NULL with a usable size of 0, having freed the
\* block: the size read, the counter of the thread decreased by the full
\* accounted size of the block, the underlying free; the allocator is not asked
\* for memory, the handler is not called, and the block is no longer live.
C30_RefusedReallocFreesBlock ==
    \A t \in Threads :
        ReallocRefused(t) =>
            /\ frame[t].ret = NULL /\ frame[t].usable = 0
            /\ Effects(t) = FreeEffects(t)
            /\ EventsOf(t, "oom") = <<>> /\ ~aborted
            /\ EventsOf(t, "realloc") = <<>> /\ EventsOf(t, "malloc") = <<>>
            /\ heap[frame[t].ptr] = FreeBlock

\* C30 happens: ztryrealloc_usable of a block with exactly SIZE_MAX / 2, a
\* handler being registered
C30_Witness ==
    \E t \in Threads :
        /\ ReallocRefused(t)
        /\ frame[t].op = "ztryrealloc_usable"
        /\ frame[t].size = SIZE_MAX \div 2
        /\ zmalloc_oom_handler # DefaultOom

\* thread t's ztryrealloc or ztryrealloc_usable of a block, with a size the
\* guard lets through, has returned NULL: the underlying realloc failed
ReallocFailed(t) ==
    /\ pc[t] = "ret" /\ frame[t].op \in {"ztryrealloc", "ztryrealloc_usable"}
    /\ frame[t].ptr # NULL /\ frame[t].ret = NULL
    /\ 0 < frame[t].size /\ frame[t].size < SIZE_MAX \div 2

\* after a failed reallocation: a usable size of 0, the old size read and the
\* underlying realloc called and nothing else, the block live with the size it
\* had
FailedReallocKeepsBlock ==
    \A t \in Threads :
        ReallocFailed(t) =>
            /\ frame[t].usable = 0
            /\ frame[t].trace =
                   <<Ev("read_size", frame[t].ptr, frame[t].presize - PREFIX_SIZE),
                     Ev("realloc", Add(frame[t].size, PREFIX_SIZE), NULL)>>
            /\ heap[frame[t].ptr].live
            /\ zmalloc_size(frame[t].ptr) = frame[t].presize

\* the call that fails is one step, which changes no counter, no index, no
\* block and not the total
FailedReallocChangesNothing ==
    \A t \in Threads :
        pc[t] = "idle" /\ ReallocFailed(t)' =>
            /\ UNCHANGED <<thread_index, total_active_threads, used_memory_thread,
                           used_memory_for_additional_threads, heap>>
            /\ UsedMemoryNow' = UsedMemoryNow

\* C31: when the underlying realloc fails for a block and a size above 0 and
\* below SIZE_MAX / 2, ztryrealloc and ztryrealloc_usable return NULL with a
\* usable size of 0 and nothing has changed: the counters, the indices, the
\* block, still live with its size, and zmalloc_used_memory().
C31_FailedReallocLeavesState == []FailedReallocKeepsBlock /\ [][FailedReallocChangesNothing]_vars

\* C31 happens: ztryrealloc of a block failed in the allocator while memory is
\* accounted
C31_Witness ==
    \E t \in Threads :
        /\ ReallocFailed(t) /\ frame[t].op = "ztryrealloc"
        /\ frame[t].size = 1
        /\ UsedMemoryNow > 0

\* the functions that allocate a new block
AllocOps == MallocOps \cup CallocOps \cup {"zcalloc_num"}

\* thread t is in an allocation that failed: the guard tripped or the allocator
\* returned NULL
FailedAlloc(t) == pc[t] # "idle" /\ frame[t].op \in AllocOps /\ frame[t].ret = NULL

\* a failed allocation has no accounting update to do and has done none, and has
\* not registered the thread: it is at the handler or returning
FailedAllocUpdatesNothing ==
    \A t \in Threads :
        FailedAlloc(t) =>
            /\ frame[t].todo = <<>> /\ pc[t] \in {"oom", "ret"}
            /\ EventsOf(t, "stat_add") = <<>> /\ EventsOf(t, "stat_sub") = <<>>
            /\ EventsOf(t, "register") = <<>>

\* the steps of a failed allocation, from the call to the return, leave
\* total_active_threads, the indices, the slots and the overflow counter as they
\* are, and the blocks too
FailedAllocChangesNothing ==
    \A t \in Threads :
        /\ frame'[t] # frame[t] \/ pc'[t] # pc[t]
        /\ FailedAlloc(t) \/ FailedAlloc(t)'
        => UNCHANGED <<thread_index, total_active_threads, used_memory_thread,
                       used_memory_for_additional_threads, heap>>

\* C32: an allocation that fails, its size refused by the guard or the
\* underlying malloc or calloc returning NULL, changes no counter and does not
\* register the thread, whether the wrapper returns NULL or calls the handler:
\* total_active_threads, the indices, every slot and the overflow counter are
\* after the call what they were before it.
C32_FailedAllocChangesNothing ==
    []FailedAllocUpdatesNothing /\ [][FailedAllocChangesNothing]_vars

\* C32 happens: the allocator refused a thread that has no index yet, and the
\* call has returned
C32_Witness ==
    \E t \in Threads :
        /\ FailedAlloc(t) /\ pc[t] = "ret"
        /\ frame[t].trace # <<>> /\ frame[t].size < SIZE_MAX \div 2
        /\ thread_index[t] = -1

\* the slots below n added up as integers
RECURSIVE PlainSlots(_)
PlainSlots(n) == IF n = 0 THEN 0 ELSE PlainSlots(n - 1) + used_memory_thread[n - 1]

\* at rest the counters, each of them a value modulo 2^w that may have wrapped
\* below zero, add up modulo 2^w to the total of the live blocks, and that is
\* what zmalloc_used_memory() gives
CountersSumToLive ==
    Quiescent =>
        /\ (used_memory_for_additional_threads + PlainSlots(MAX_THREADS_NUM)) % SizeMod
               = LiveTotal
        /\ UsedMemoryNow = LiveTotal

\* a decrement changes the counter of the thread that frees, to its value minus
\* the amount modulo 2^w, and leaves every other counter with what was added
\* to it
FreeDecrementsOwnCounter ==
    \A t \in Threads :
        UpdateStep(t) /\ frame'[t].trace[Len(frame'[t].trace)].ev = "stat_sub" =>
            LET amt == frame'[t].trace[Len(frame'[t].trace)].b
                wrapped(old) == IF old >= amt THEN old - amt ELSE old + SizeMod - amt
            IN  IF thread_index[t] >= MAX_THREADS_NUM
                THEN /\ used_memory_for_additional_threads' =
                            wrapped(used_memory_for_additional_threads)
                     /\ UNCHANGED used_memory_thread
                ELSE /\ used_memory_thread' =
                            [used_memory_thread EXCEPT ![thread_index[t]] = wrapped(@)]
                     /\ UNCHANGED used_memory_for_additional_threads

\* C33: a thread that frees a block another thread allocated decrements its own
\* counter, which wraps modulo 2^w when it goes below zero, and the counter of
\* the allocating thread keeps the addition; the counters still add up modulo
\* 2^w to the live total, so zmalloc_used_memory() at rest does not depend on
\* which thread freed, a thread beyond the table included.
C33_CrossThreadFreeWraps == []CountersSumToLive /\ [][FreeDecrementsOwnCounter]_vars

\* C33 happens: at rest, a thread beyond the table has freed a block that a
\* thread of the table had allocated: the overflow counter has wrapped above the
\* live total and the first slot keeps its bytes
C33_Witness ==
    /\ Quiescent
    /\ used_memory_for_additional_threads > LiveTotal
    /\ used_memory_thread[0] > 0
    /\ used_memory_for_additional_threads + used_memory_thread[0] >= SizeMod

\* the calls thread t's call has made to the underlying malloc, calloc or realloc
ShimCalls(t) ==
    SelectSeq(frame[t].trace, LAMBDA x : x.ev \in {"malloc", "calloc", "realloc"})

\* the size the underlying allocator is to be given, as an integer: the request
\* raised to the minimum, or as it is in a reallocation, plus the prefix
ExactRequest(ev, size) ==
    (IF ev = "realloc" THEN size ELSE IF size > 0 THEN size ELSE SizeofLong)
        + (IF have_malloc_size THEN 0 ELSE SizeofSizeT)

\* C34: whenever the underlying malloc, calloc or realloc is called, the size of
\* the request is below SIZE_MAX / 2 and the size handed over is
\* MALLOC_MIN_SIZE(size) + PREFIX_SIZE (size + PREFIX_SIZE for realloc) as an
\* integer, which fits in a size_t: nothing wrapped, and the block asked for
\* holds the prefix and the requested bytes. With a size of SIZE_MAX / 2 or more
\* the underlying allocator is not called.
C34_RequestNeverWraps ==
    \A t \in Threads :
        pc[t] # "idle" /\ frame[t].op \in AllocOps \cup ReallocOps =>
            /\ Len(ShimCalls(t)) <= 1
            /\ \A i \in 1 .. Len(ShimCalls(t)) :
                   LET call == ShimCalls(t)[i]
                   IN  /\ frame[t].size < SIZE_MAX \div 2
                       /\ call.a = ExactRequest(call.ev, frame[t].size)
                       /\ call.a <= SIZE_MAX
                       /\ call.a >= frame[t].size + PREFIX_SIZE
            /\ frame[t].size >= SIZE_MAX \div 2 => ShimCalls(t) = <<>>

\* C34 happens: the largest size the guard lets through, in the header build,
\* has been handed to the underlying realloc with the prefix added
C34_Witness ==
    \E t \in Threads :
        /\ pc[t] # "idle" /\ ~have_malloc_size
        /\ frame[t].size = SIZE_MAX \div 2 - 1
        /\ EventsOf(t, "realloc") # <<>>
        /\ EventsOf(t, "realloc")[1].a > SIZE_MAX \div 2

\* thread t is in zfree of a block
InFree(t) == pc[t] # "idle" /\ frame[t].op = "zfree" /\ frame[t].ptr # NULL

\* what zfree has done so far is the beginning of: the size read, the counter
\* decremented by the accounted size, the underlying free; the size is read
\* when the call starts, and until the underlying free the block is allocated
\* with that size; the underlying free is the last thing done
FreeInOrder ==
    \A t \in Threads :
        InFree(t) =>
            LET done == Effects(t)
            IN  /\ 1 <= Len(done) /\ Len(done) <= 3
                /\ done = SubSeq(FreeEffects(t), 1, Len(done))
                /\ Len(done) < 3 =>
                       /\ heap[frame[t].ptr].live
                       /\ zmalloc_size(frame[t].ptr) = frame[t].presize
                       /\ pc[t] # "ret"
                /\ Len(done) = 3 => pc[t] = "ret"

\* the size is the one the block has when zfree is called, and reading it
\* changes no block; the block is released by the last step of zfree
FreeReadsLiveBlock ==
    \A t \in Threads :
        /\ pc[t] = "idle" /\ InFree(t)' =>
               /\ heap[frame'[t].ptr].live
               /\ frame'[t].trace =
                      <<Ev("read_size", frame'[t].ptr, heap[frame'[t].ptr].size)>>
               /\ heap' = heap
        /\ InFree(t) /\ pc[t] # "ret" /\ pc'[t] = "ret" =>
               heap[frame[t].ptr].live /\ ~heap'[frame[t].ptr].live

\* C35: zfree of a block reads the size of the block (from the allocator or the
\* header) while the block is allocated, then decrements the counter of the
\* calling thread by the accounted size, then calls the underlying free, and
\* reads nothing of the block after that.
C35_FreeReadsThenCountsThenFrees == []FreeInOrder /\ [][FreeReadsLiveBlock]_vars

\* C35 happens: in the header build a thread beyond the table has gone through
\* the three steps of zfree
C35_Witness ==
    \E t \in Threads :
        /\ InFree(t) /\ pc[t] = "ret"
        /\ ~have_malloc_size
        /\ thread_index[t] >= MAX_THREADS_NUM
        /\ Len(Effects(t)) = 3

\* thread t is in zfree(NULL) or zfree_with_size(NULL, n)
InNullFree(t) ==
    pc[t] # "idle" /\ frame[t].op \in {"zfree", "zfree_with_size"} /\ frame[t].ptr = NULL

\* a free of NULL is returning, having done nothing; and a free that is at its
\* accounting update or at the underlying free, that is in zfree_internal, has a
\* pointer that is not NULL
NullFreeDoesNothing ==
    \A t \in Threads :
        /\ InNullFree(t) =>
               /\ pc[t] = "ret"
               /\ frame[t].trace = <<>> /\ frame[t].todo = <<>>
               /\ frame[t].realptr = NULL
        /\ frame[t].op \in {"zfree", "zfree_with_size"} /\ pc[t] \in {"stat", "stat_wr", "free"}
               => frame[t].ptr # NULL /\ frame[t].realptr # NULL

\* the steps of a free of NULL change no counter, no index, no block
NullFreeChangesNothing ==
    \A t \in Threads :
        /\ frame'[t] # frame[t] \/ pc'[t] # pc[t]
        /\ InNullFree(t) \/ InNullFree(t)'
        => UNCHANGED <<thread_index, total_active_threads, used_memory_thread,
                       used_memory_for_additional_threads, heap>>

\* C36: zfree(NULL) and zfree_with_size(NULL, n), whatever n, do nothing: no
\* counter changes, the thread is not registered, the underlying free is not
\* called, and zfree_internal, which asserts its pointer is not NULL, is not
\* reached.
C36_FreeOfNullIsNoOp == []NullFreeDoesNothing /\ [][NullFreeChangesNothing]_vars

\* C36 happens: zfree_with_size(NULL, SIZE_MAX) by a thread that has no index
\* and would get one beyond the table
C36_Witness ==
    \E t \in Threads :
        /\ InNullFree(t) /\ frame[t].op = "zfree_with_size" /\ frame[t].size = SIZE_MAX
        /\ thread_index[t] = -1
        /\ total_active_threads = MAX_THREADS_NUM

\* thread t is in zcalloc_num(num, 0)
InCallocNumOfZero(t) ==
    pc[t] # "idle" /\ frame[t].op = "zcalloc_num" /\ frame[t].elsize = 0

\* zcalloc_num(num, 0) calls no allocator and has no update to do: it is about
\* to invoke the handler, or has invoked it with SIZE_MAX and, the handler
\* having returned, returns NULL; zcalloc(0) that the allocator did not refuse
\* returns a block of the minimum size, live and accounted
CallocNumOfZeroPanics ==
    \A t \in Threads :
        /\ InCallocNumOfZero(t) =>
               /\ ShimCalls(t) = <<>> /\ frame[t].todo = <<>>
               /\ frame[t].ret = NULL
               /\ IF pc[t] = "oom" /\ ~aborted THEN frame[t].trace = <<>>
                  ELSE /\ pc[t] = "ret" \/ aborted
                       /\ frame[t].trace = <<Ev("oom", zmalloc_oom_handler, SIZE_MAX)>>
        /\ pc[t] = "ret" /\ frame[t].op = "zcalloc" /\ frame[t].size = 0
                         /\ EventsOf(t, "calloc")[1].b # NULL =>
               /\ frame[t].ret # NULL /\ heap[frame[t].ret].live
               /\ zmalloc_usable_size(frame[t].ret) >= SizeofLong
               /\ heap[frame[t].ret].acc = AccountedSize(frame[t].ret)
               /\ EventsOf(t, "oom") = <<>>

\* the steps of zcalloc_num(num, 0) change no counter, no index, no block
CallocNumOfZeroChangesNothing ==
    \A t \in Threads :
        /\ frame'[t] # frame[t] \/ pc'[t] # pc[t]
        /\ InCallocNumOfZero(t) \/ InCallocNumOfZero(t)'
        => UNCHANGED <<thread_index, total_active_threads, used_memory_thread,
                       used_memory_for_additional_threads, heap>>

\* C37: zcalloc_num(num, 0), whatever num, allocates nothing: it invokes the
\* handler with SIZE_MAX and returns NULL if the handler returns, the accounting
\* being what it was; zcalloc(0) returns a block of the minimum size when the
\* allocator gives one.
C37_CallocNumOfZeroPanics ==
    []CallocNumOfZeroPanics /\ [][CallocNumOfZeroChangesNothing]_vars

\* C37 happens: zcalloc_num(3, 0) has returned NULL after a registered handler
\* returned, while a block is live
C37_Witness ==
    \E t \in Threads :
        /\ InCallocNumOfZero(t) /\ pc[t] = "ret"
        /\ frame[t].num > 0
        /\ zmalloc_oom_handler # DefaultOom
        /\ \E p \in Ptrs : heap[p].live

\* thread t is in zrealloc or zrealloc_usable
InPanicRealloc(t) == pc[t] # "idle" /\ frame[t].op \in {"zrealloc", "zrealloc_usable"}

\* C38: zrealloc(ptr, 0) and zrealloc_usable(ptr, 0, usable) of a block release
\* the block and return NULL, with a usable size of 0, and do not invoke the
\* handler; the panicking reallocations invoke the handler when the result is
\* NULL and the size is not 0, once, and in no other case.
C38_ReallocToZeroDoesNotPanic ==
    \A t \in Threads :
        InPanicRealloc(t) =>
            /\ frame[t].ptr # NULL /\ frame[t].size = 0 =>
                   /\ pc[t] # "oom" /\ ~aborted
                   /\ EventsOf(t, "oom") = <<>>
                   /\ frame[t].ret = NULL /\ frame[t].usable = 0
                   /\ pc[t] = "ret" =>
                          Effects(t) = FreeEffects(t) /\ heap[frame[t].ptr] = FreeBlock
            /\ pc[t] = "oom" => frame[t].ret = NULL /\ frame[t].size # 0
            /\ pc[t] = "oom" /\ ~aborted => EventsOf(t, "oom") = <<>>
            /\ pc[t] = "ret" \/ aborted =>
                   EventsOf(t, "oom") =
                       IF frame[t].ret = NULL /\ frame[t].size # 0
                       THEN <<Ev("oom", zmalloc_oom_handler, frame[t].size)>>
                       ELSE <<>>

\* C38 happens: zrealloc_usable(ptr, 0, usable) of a block has released it and
\* is returning
C38_Witness ==
    \E t \in Threads :
        /\ InPanicRealloc(t) /\ pc[t] = "ret"
        /\ frame[t].op = "zrealloc_usable"
        /\ frame[t].ptr # NULL /\ frame[t].size = 0
        /\ Len(Effects(t)) = 3

\* the place of the first event named e in what thread t's call has done, 0 when
\* there is none
PlaceOf(t, e) ==
    IF EventsOf(t, e) = <<>> THEN 0
    ELSE CHOOSE i \in 1 .. Len(frame[t].trace) :
             /\ frame[t].trace[i].ev = e
             /\ \A j \in 1 .. i - 1 : frame[t].trace[j].ev # e

\* the statistics zmalloc_get_allocator_info reads from jemalloc
JeStats ==
    {"stats.resident", "stats.active", "stats.allocated", "stats.retained",
     "stats.arenas.pmuzzy", "arenas.page"}

\* C39: with jemalloc, zmalloc_get_allocator_info refreshes the epoch, once,
\* before it reads any statistic; it stores 0 in allocated, active and resident,
\* and in retained when retained is not NULL, before the statistic is read into
\* them; it reads and writes retained only when retained is not NULL, and muzzy
\* only when muzzy is not NULL; when it returns, it returns 1.
C39_EpochBeforeStatistics ==
    \A t \in Threads :
        pc[t] # "idle" /\ frame[t].op = "zmalloc_get_allocator_info (jemalloc)" =>
            /\ Len(EventsOf(t, "epoch")) = 1
            /\ \A e \in JeStats :
                   /\ Len(EventsOf(t, e)) <= 1
                   /\ EventsOf(t, e) # <<>> => PlaceOf(t, "epoch") < PlaceOf(t, e)
            /\ \A x \in {"resident", "active", "allocated"} :
                   /\ EventsOf(t, "set_" \o x) = <<Ev("set_" \o x, 0, 0)>>
                   /\ Len(EventsOf(t, "stats." \o x)) = 1
                   /\ PlaceOf(t, "set_" \o x) < PlaceOf(t, "stats." \o x)
            /\ IF frame[t].num = 1
               THEN /\ EventsOf(t, "set_retained") = <<Ev("set_retained", 0, 0)>>
                    /\ Len(EventsOf(t, "stats.retained")) = 1
                    /\ PlaceOf(t, "set_retained") < PlaceOf(t, "stats.retained")
               ELSE EventsOf(t, "set_retained") = <<>> /\ EventsOf(t, "stats.retained") = <<>>
            /\ frame[t].size = 0 =>
                   /\ EventsOf(t, "set_muzzy") = <<>>
                   /\ EventsOf(t, "stats.arenas.pmuzzy") = <<>>
                   /\ EventsOf(t, "arenas.page") = <<>>
            /\ pc[t] = "ret" => frame[t].usable = 1
            /\ pc[t] # "ret" => frame[t].size = 1 /\ EventsOf(t, "abort") # <<>>

\* C39 happens: the call returned with retained and muzzy asked for, the
\* statistics read, the refresh of the epoch having failed
C39_Witness ==
    \E t \in Threads :
        /\ pc[t] = "ret" /\ frame[t].op = "zmalloc_get_allocator_info (jemalloc)"
        /\ frame[t].num = 1 /\ frame[t].size = 1
        /\ EventsOf(t, "arenas.page") # <<>>
        /\ EventsOf(t, "stats.retained")[1].a = SIZE_MAX
        /\ EventsOf(t, "epoch")[1].b = 0

\* the line without its end of line
Stripped(line) ==
    IF line # <<>> /\ line[Len(line)] = "\n" THEN SubSeq(line, 1, Len(line) - 1) ELSE line

\* the places of the character c in str
PlacesOf(str, c) == {k \in 1 .. Len(str) : str[k] = c}

\* what follows the last ")" of the line and the spaces after it
AfterName(line) ==
    LET buf == Stripped(line)
        last == CHOOSE k \in PlacesOf(buf, ")") : \A j \in PlacesOf(buf, ")") : j <= k
        rest == SubSeq(buf, last + 1, Len(buf))
        lead == CHOOSE n \in 0 .. Len(rest) :
                    /\ \A j \in 1 .. n : rest[j] = " "
                    /\ n < Len(rest) => rest[n + 1] # " "
    IN  SubSeq(rest, lead + 1, Len(rest))

\* the fields of a text, which single spaces separate: n spaces make n + 1
\* fields, the k-th going from after the (k-1)-th space to before the k-th
NumFields(str) == Cardinality(PlacesOf(str, " ")) + 1

FieldOf(str, k) ==
    LET from == IF k = 1 THEN 0
                ELSE CHOOSE q \in PlacesOf(str, " ") :
                         Cardinality({j \in PlacesOf(str, " ") : j <= q}) = k - 1
        upto == IF k = NumFields(str) THEN Len(str) + 1
                ELSE CHOOSE q \in PlacesOf(str, " ") :
                         Cardinality({j \in PlacesOf(str, " ") : j <= q}) = k
    IN  SubSeq(str, from + 1, upto - 1)

\* a text that is a decimal integer and nothing else
IsDecimal(str) == str # <<>> /\ \A k \in 1 .. Len(str) : str[k] \in Digits

\* field i of the line, the pid being field 1, the name field 2 and the text
\* after the name beginning with field 3: whether there is one that is a
\* decimal integer, and its value
StatedField(i, line) ==
    IF /\ line # <<>> /\ PlacesOf(Stripped(line), ")") # {}
       /\ i >= 3 /\ AfterName(line) # <<>> /\ i - 2 <= NumFields(AfterName(line))
       /\ IsDecimal(FieldOf(AfterName(line), i - 2))
    THEN [ok |-> TRUE, value |-> DecimalValue(FieldOf(AfterName(line), i - 2))]
    ELSE [ok |-> FALSE, value |-> 0]

\* thread t's get_proc_stat_ll has returned
ProcStatDone(t) == pc[t] = "ret" /\ frame[t].op = "get_proc_stat_ll"

\* C40 as stated: get_proc_stat_ll(i, res) returns 1 with the value of field i
\* in res when the line has, counting from after the last ")", a field i that is
\* a decimal integer, and 0 when the file cannot be read, there is no ")",
\* i < 3, the line has fewer than i fields or the field is not a decimal
\* integer; zmalloc_get_rss returns field RssField times the page size, or 0
\* when there is no such value.
C40_AsStated ==
    \A t \in Threads :
        /\ ProcStatDone(t) =>
               LET stated == StatedField(frame[t].num, frame[t].trace[1].a)
               IN  IF stated.ok
                   THEN /\ frame[t].usable = 1
                        /\ EventsOf(t, "store") = <<Ev("store", stated.value, 0)>>
                   ELSE frame[t].usable = 0
        /\ pc[t] = "ret" /\ frame[t].op = "zmalloc_get_rss (proc)" =>
               LET stated == StatedField(RssField, frame[t].trace[1].a)
               IN  IF ~stated.ok THEN frame[t].usable = 0
                   ELSE stated.value * frame[t].num <= LLONG_MAX =>
                            frame[t].usable = stated.value * frame[t].num

\* C40 diverges: get_proc_stat_ll returned 1 for a field of digits whose value
\* is above LLONG_MAX, and stored LLONG_MAX
C40_Witness ==
    \E t \in Threads :
        /\ ProcStatDone(t) /\ frame[t].usable = 1
        /\ StatedField(frame[t].num, frame[t].trace[1].a).ok
        /\ StatedField(frame[t].num, frame[t].trace[1].a).value > LLONG_MAX
        /\ EventsOf(t, "store") = <<Ev("store", LLONG_MAX, 0)>>

\* get_proc_stat_ll returned 1 for a field that is empty, and stored 0
C40_EmptyFieldAccepted ==
    \E t \in Threads :
        /\ ProcStatDone(t) /\ frame[t].usable = 1
        /\ ~StatedField(frame[t].num, frame[t].trace[1].a).ok
        /\ EventsOf(t, "store") = <<Ev("store", 0, 0)>>

\* apart from the fields that are empty or too large for a long long,
\* get_proc_stat_ll does what C40 states
C40_ElseAsStated ==
    \A t \in Threads :
        ProcStatDone(t) =>
            LET line == frame[t].trace[1].a
                i == frame[t].num
                stated == StatedField(i, line)
                empty == /\ line # <<>> /\ PlacesOf(Stripped(line), ")") # {}
                         /\ i >= 3 /\ AfterName(line) # <<>>
                         /\ i - 2 <= NumFields(AfterName(line))
                         /\ FieldOf(AfterName(line), i - 2) = <<>>
            IN  IF stated.ok /\ stated.value <= LLONG_MAX
                THEN /\ frame[t].usable = 1
                     /\ EventsOf(t, "store") = <<Ev("store", stated.value, 0)>>
                ELSE IF stated.ok
                THEN /\ frame[t].usable = 1
                     /\ EventsOf(t, "store") = <<Ev("store", LLONG_MAX, 0)>>
                ELSE IF empty
                THEN /\ frame[t].usable = 1
                     /\ EventsOf(t, "store") = <<Ev("store", 0, 0)>>
                ELSE frame[t].usable = 0

====
